---- MODULE Spec2Model ----
(***************************************************************************)
(* A model of the multi-source agent: the tool-calling loop of             *)
(* MultiSourceAgent (src/src/agent.js), its providers TerminalTool and     *)
(* DatabaseTool (src/src/tools), and the stand-alone BashDataSource        *)
(* (src/src/datasources/bash.js).                                          *)
(*                                                                         *)
(* JavaScript strings are TLA+ strings; the String methods the code uses   *)
(* (toLowerCase, trim, includes, startsWith) are computed character by     *)
(* character with Len, SubSeq and \o.                                      *)
(***************************************************************************)
EXTENDS Integers, Sequences, FiniteSets, TLC

(***************************************************************************)
(* Bounds of the model.                                                    *)
(***************************************************************************)
\* a probed command line is made of at most MaxTokens words of Tokens
MaxTokens == 2
\* processMessage is called at most MaxTurns times
MaxTurns == 2
\* the model asks for tools in at most MaxRounds of its turns per message
MaxRounds == 1
\* at most MaxLines lines arrive on the input of ConversationInterface
MaxLines == 3
\* one model turn requests at most MaxToolCalls tool invocations
MaxToolCalls == 2
\* BashDataSource.execute is called at most MaxBashCalls times
MaxBashCalls == 2

(***************************************************************************)
(* String.prototype methods.                                               *)
(***************************************************************************)
UpperChars == "ABCDEFGHIJKLMNOPQRSTUVWXYZ"
LowerChars == "abcdefghijklmnopqrstuvwxyz"

\* the i-th character of s, as a one-character string
charAt(s, i) == SubSeq(s, i, i)

\* each upper-case letter with its lower-case letter
lowerOf ==
    [c \in { charAt(UpperChars, i) : i \in 1..Len(UpperChars) } |->
        charAt(LowerChars, CHOOSE i \in 1..Len(UpperChars) : charAt(UpperChars, i) = c)]

lowerChar(c) == IF c \in DOMAIN lowerOf THEN lowerOf[c] ELSE c

\* the characters i..j of s, in lower case (by halves, which keeps the
\* evaluation shallow on long strings)
RECURSIVE lowerFrom(_, _, _)
lowerFrom(s, i, j) ==
    IF i > j THEN ""
    ELSE IF i = j THEN lowerChar(charAt(s, i))
    ELSE lowerFrom(s, i, (i + j) \div 2) \o lowerFrom(s, (i + j) \div 2 + 1, j)

\* (the argument is bound as a value, so that it is evaluated once)
toLowerCase(s) ==
    CHOOSE lower \in { lowerFrom(str, 1, Len(str)) : str \in { s } } : TRUE

isWhiteSpace(c) == c \in {" ", "\t", "\n", "\r"}

RECURSIVE trimStart(_)
trimStart(s) ==
    IF Len(s) > 0 /\ isWhiteSpace(charAt(s, 1))
    THEN trimStart(SubSeq(s, 2, Len(s)))
    ELSE s

RECURSIVE trimEnd(_)
trimEnd(s) ==
    IF Len(s) > 0 /\ isWhiteSpace(charAt(s, Len(s)))
    THEN trimEnd(SubSeq(s, 1, Len(s) - 1))
    ELSE s

trim(s) == trimEnd(trimStart(s))

\* (here and below an argument bound by \E x \in { argument } is evaluated once)
includes(s, sub) ==
    \E str \in { s }, part \in { sub } :
        \E i \in 1..(Len(str) - Len(part) + 1) :
            SubSeq(str, i, i + Len(part) - 1) = part

startsWith(s, prefix) ==
    Len(prefix) <= Len(s) /\ SubSeq(s, 1, Len(prefix)) = prefix

(***************************************************************************)
(* TerminalTool.isCommandSafe and its three fixed lists.                   *)
(***************************************************************************)
safeCommands ==
    { "curl", "wget", "date", "time", "echo", "cat",
      "ls", "dir", "pwd", "whoami", "uname", "systeminfo",
      "head", "tail", "grep", "find", "which", "where" }

safeUrls ==
    { "wttr.in", "ipinfo.io", "api.exchangerate-api.com",
      "feeds.bbci.co.uk", "api.duckduckgo.com", "httpbin.org" }

dangerousCommands ==
    { "rm", "del", "rmdir", "rd", "format", "fdisk",
      "kill", "taskkill", "shutdown", "reboot", "halt",
      "chmod", "chown", "su", "sudo", "passwd",
      "nc", "netcat", "telnet", "ssh", "ftp",
      "wget -O", "curl -o", ">", ">>", "|", "&", ";" }

\* the loop over dangerousCommands: some entry occurs in the normalised command
containsDangerous(cmd) ==
    \E dangerous \in dangerousCommands : includes(cmd, toLowerCase(dangerous))

startsWithSafe(cmd) == \E safe \in safeCommands : startsWith(cmd, safe)

containsSafeUrl(cmd) == \E url \in safeUrls : includes(cmd, url)

\* variant: the allowlists are consulted before the blocklist
isCommandSafeAllowFirst(command) ==
    LET cmd == trim(toLowerCase(command))
    IN  IF startsWithSafe(cmd) \/ containsSafeUrl(cmd) THEN TRUE
        ELSE FALSE

isCommandSafe(command) ==
    \E cmd \in { trim(toLowerCase(command)) } :
        IF containsDangerous(cmd) THEN FALSE
        ELSE startsWithSafe(cmd) \/ containsSafeUrl(cmd)

\* whitespace-delimited first word of a string (for stating the allowlist bar)
RECURSIVE firstToken(_)
firstToken(s) ==
    IF Len(s) = 0 \/ isWhiteSpace(charAt(s, 1)) THEN ""
    ELSE charAt(s, 1) \o firstToken(SubSeq(s, 2, Len(s)))

(***************************************************************************)
(* The approval prompt's reading of the answer line                        *)
(* (TerminalTool.askUserApproval and BashDataSource.askUserApproval).      *)
(***************************************************************************)
\* variant: a "y" anywhere in the line approves
approvedAnswerAnywhere(answer) == includes(toLowerCase(answer), "y")

approvedAnswer(answer) == startsWith(toLowerCase(answer), "y")

(***************************************************************************)
(* Inputs.                                                                 *)
(***************************************************************************)
Tokens ==
    { "curl", "wget", "-O", "LS", "timeout", "rm", "wttr.in", "python",
      "|", "Sudo", "date" }

RECURSIVE TokenCommands(_)
TokenCommands(n) ==
    IF n = 0 THEN {}
    ELSE Tokens \cup TokenCommands(n - 1)
         \cup { c \o " " \o t : c \in TokenCommands(n - 1), t \in Tokens }

\* the command lines BashDataSource.generateCommand can return without a search term
TemplateCommands ==
    { "curl -s \"https://wttr.in/?format=3\"",
      "date /t && time /t", "date",
      "systeminfo | findstr /B /C:\"OS Name\" /C:\"Total Physical Memory\"",
      "uname -a && free -h",
      "curl -s \"https://ipinfo.io/json\"",
      "curl -s \"https://feeds.bbci.co.uk/news/rss.xml\" | head -50",
      "curl -s \"https://api.exchangerate-api.com/v4/latest/USD\"",
      "dir", "ls -la" }

Commands ==
    TokenCommands(MaxTokens) \cup TemplateCommands
    \cup { "rm -rf /", "  CURL https://WTTR.in  ", "" }

Answers ==
    { "", "y", "Y", "yes", "YES", "Yes please", "yo", "n", "no", "N",
      " yes", "\ty", "nay", "ok" }

(***************************************************************************)
(* TerminalTool: result strings and formatCommandOutput.                   *)
(***************************************************************************)
RejectedMessage ==
    "Command rejected for security reasons. Only safe read-only commands for external data are allowed."

CancelledMessage == "Command execution was cancelled by user."

NoOutputMessage == "The command executed successfully but returned no output."

terminalFailure(message) ==
    "Command execution failed: " \o message \o ". Try a different approach or command."

\* the label formatCommandOutput chooses from the command's pattern
outputLabel(command) ==
    IF includes(command, "wttr.in") THEN "Weather Information"
    ELSE IF includes(command, "date") \/ includes(command, "time")
         THEN "Current Date/Time"
    ELSE IF includes(command, "systeminfo") \/ includes(command, "uname")
         THEN "System Information"
    ELSE IF includes(command, "ipinfo.io") THEN "Network Information"
    ELSE IF includes(command, "exchangerate-api") \/ includes(command, "exchange")
         THEN "Exchange Rate Data"
    ELSE IF includes(command, "duckduckgo") \/ includes(command, "search")
         THEN "Search Data"
    ELSE IF includes(command, "rss") \/ includes(command, "news")
              \/ includes(command, "feeds")
         THEN "News Data"
    ELSE "Command Output"

\* stdout here is plain text (not JSON, no <title> elements, under the
\* truncation budgets), so every JSON.parse branch takes its catch and no
\* branch truncates; the pictograph in front of each label is left out.
\* The news branch is the one that does not trim the output.
formatCommandOutput(output, command) ==
    IF trim(output) = "" THEN NoOutputMessage
    ELSE "External data retrieved:\n\n" \o "**" \o outputLabel(command) \o ":**\n"
         \o (IF outputLabel(command) = "News Data" THEN output ELSE trim(output))

(***************************************************************************)
(* BashDataSource.generateCommand, extractSearchTerm and result strings.   *)
(***************************************************************************)
NoCommandMessage ==
    "I could not determine an appropriate command to get external data for your question. Please try asking for current information, web data, or system information."

bashFailure(message) == "Command execution failed: " \o message

\* index of the first occurrence of sub in s, 0 when there is none
indexOf(s, sub) ==
    IF includes(s, sub)
    THEN CHOOSE i \in 1..(Len(s) - Len(sub) + 1) :
            /\ SubSeq(s, i, i + Len(sub) - 1) = sub
            /\ \A j \in 1..(i - 1) : SubSeq(s, j, j + Len(sub) - 1) # sub
    ELSE 0

\* the patterns /<lead>(.*?)\\?$/i : the capture runs from the first
\* occurrence of the lead to the end of the line, less one trailing backslash
searchLeads == << "what is ", "who is ", "tell me about ", "search for " >>

captureAfter(question, lead) ==
    LET i    == indexOf(toLowerCase(question), lead)
        rest == SubSeq(question, i + Len(lead), Len(question))
    IN  IF Len(rest) > 0 /\ charAt(rest, Len(rest)) = "\\"
        THEN SubSeq(rest, 1, Len(rest) - 1) ELSE rest

\* << >> stands for null
extractSearchTerm(question) ==
    LET hits == { k \in 1..Len(searchLeads) :
                     includes(toLowerCase(question), searchLeads[k]) }
    IN  IF hits = {} THEN << >>
        ELSE LET k == CHOOSE k \in hits : \A h \in hits : k <= h
             IN  << trim(captureAfter(question, searchLeads[k])) >>

\* encodeURIComponent on the characters the questions use
encodeChar(c) ==
    IF c = " " THEN "%20"
    ELSE IF c = "?" THEN "%3F"
    ELSE IF c = "\"" THEN "%22"
    ELSE IF c = "|" THEN "%7C"
    ELSE IF c = "&" THEN "%26"
    ELSE IF c = ";" THEN "%3B"
    ELSE c

RECURSIVE encodeURIComponent(_)
encodeURIComponent(s) ==
    IF Len(s) = 0 THEN ""
    ELSE encodeChar(charAt(s, 1)) \o encodeURIComponent(SubSeq(s, 2, Len(s)))

\* << >> stands for null; plat is process.platform
generateCommand(question, plat) ==
    LET lowerQuestion == toLowerCase(question)
        searchTerm    == extractSearchTerm(question)
    IN  IF includes(lowerQuestion, "weather")
        THEN << "curl -s \"https://wttr.in/?format=3\"" >>
        ELSE IF includes(lowerQuestion, "time") \/ includes(lowerQuestion, "date")
        THEN << IF plat = "win32" THEN "date /t && time /t" ELSE "date" >>
        ELSE IF includes(lowerQuestion, "system") \/ includes(lowerQuestion, "computer")
        THEN << IF plat = "win32"
                THEN "systeminfo | findstr /B /C:\"OS Name\" /C:\"Total Physical Memory\""
                ELSE "uname -a && free -h" >>
        ELSE IF includes(lowerQuestion, "ip") \/ includes(lowerQuestion, "network")
        THEN << "curl -s \"https://ipinfo.io/json\"" >>
        ELSE IF includes(lowerQuestion, "news") \/ includes(lowerQuestion, "current")
        THEN << "curl -s \"https://feeds.bbci.co.uk/news/rss.xml\" | head -50" >>
        ELSE IF includes(lowerQuestion, "exchange") \/ includes(lowerQuestion, "currency")
                \/ includes(lowerQuestion, "dollar") \/ includes(lowerQuestion, "euro")
        THEN << "curl -s \"https://api.exchangerate-api.com/v4/latest/USD\"" >>
        ELSE IF /\ \/ includes(lowerQuestion, "search")
                   \/ includes(lowerQuestion, "what is")
                   \/ includes(lowerQuestion, "who is")
                /\ searchTerm # << >>
                /\ searchTerm[1] # ""
        THEN << "curl -s \"https://api.duckduckgo.com/instant_answer?q="
                \o encodeURIComponent(searchTerm[1]) \o "&format=json\"" >>
        ELSE IF includes(lowerQuestion, "files") \/ includes(lowerQuestion, "directory")
                \/ includes(lowerQuestion, "folder")
        THEN << IF plat = "win32" THEN "dir" ELSE "ls -la" >>
        ELSE << >>

\* BashDataSource.formatCommandOutput, for plain-text stdout
bashOutputLabel(command) ==
    IF includes(command, "wttr.in") THEN "Weather Information"
    ELSE IF includes(command, "date") THEN "Current Date/Time"
    ELSE IF includes(command, "systeminfo") \/ includes(command, "uname")
         THEN "System Information"
    ELSE IF includes(command, "ipinfo.io") THEN "Network Information"
    ELSE IF includes(command, "exchangerate-api") THEN "Exchange Rate Data"
    ELSE IF includes(command, "duckduckgo") THEN "Search Data"
    ELSE IF includes(command, "rss.xml") \/ includes(command, "news") THEN "News Data"
    ELSE "Command Output"

\* the source writes \\n in its template literals, a backslash and an n;
\* the news branch appends an ellipsis to the untrimmed output and the
\* generic branch does not trim either
bashFormatCommandOutput(output, command) ==
    IF trim(output) = "" THEN NoOutputMessage
    ELSE "External data retrieved:\\n\\n" \o "**" \o bashOutputLabel(command)
         \o ":**\\n"
         \o (IF bashOutputLabel(command) = "Command Output" THEN output
             ELSE IF bashOutputLabel(command) = "News Data" THEN output \o "..."
             ELSE trim(output))

Questions ==
    { "What's the current weather?", "What time is it?",
      "Get current exchange rates", "What's my IP address?",
      "Show computer details", "Any news today?", "How much is a dollar?",
      "What is TLA?", "search", "List my files", "Hello there" }

Platforms == { "linux", "win32" }

(***************************************************************************)
(* DatabaseTool: the write-operation check, result strings, formatResults. *)
(* database-tool.js holds two definitions of the class; Version 1 is the   *)
(* first (lines 9-162), Version 2 the second (lines 172-305).              *)
(***************************************************************************)
\* /drop|delete|update|insert/i
writePattern == { "drop", "delete", "update", "insert" }

matchesWritePattern(sqlQuery) ==
    \E w \in writePattern : includes(toLowerCase(sqlQuery), w)

\* result strings, the pictograph in front of each left out
WriteRejectedMessage ==
    "Write operations (INSERT, UPDATE, DELETE, DROP) are not allowed. Only SELECT queries are permitted."

NoDatabaseMessage == "No database available for querying."

sqlErrorMessage(version, errorMessage, sqlQuery) ==
    IF version = 1
    THEN "SQL Error: " \o errorMessage \o ".\nExecuted SQL: " \o sqlQuery
         \o "\nTip: Check table/column names against the schema. Remember: this is SQLite, not MySQL/Postgres."
    ELSE "Database query error: " \o errorMessage
         \o ". Please check if the SQL query is correct and try again."

noResultsMessage(version, sqlQuery) ==
    IF version = 1
    THEN "Executed SQL: " \o sqlQuery \o "\n\nNo results found for your query."
    ELSE "No results found for your query."

\* decimal rendering of a natural number
digitChar(d) == charAt("0123456789", d + 1)

RECURSIVE numToString(_)
numToString(n) ==
    IF n < 10 THEN digitChar(n)
    ELSE numToString(n \div 10) \o digitChar(n % 10)

\* a row is the sequence of its [key, value, isNull] entries in column
\* order; value is the column's value already converted by `${value}`
\* results[0].count !== undefined: the row has a column named count
hasCount(row) == \E k \in 1..Len(row) : row[k].key = "count"

countOf(row) ==
    LET e == row[CHOOSE k \in 1..Len(row) : row[k].key = "count"]
    IN  IF e.isNull THEN "null" ELSE e.value

RECURSIVE joinFields(_)
joinFields(row) ==
    IF Len(row) = 0 THEN ""
    ELSE LET e    == row[1]
             rest == joinFields(Tail(row))
         IN  IF e.isNull \/ e.value = "" THEN rest
             ELSE e.key \o ": " \o e.value
                  \o (IF rest = "" THEN "" ELSE " | " \o rest)

RECURSIVE listRows(_, _)
listRows(results, index) ==
    IF index > Len(results) \/ index > 10 THEN ""
    ELSE numToString(index) \o ". " \o joinFields(results[index]) \o "\n"
         \o listRows(results, index + 1)

formatResults(version, sqlQuery, results) ==
    LET header == IF version = 1
                  THEN "Executed SQL: " \o sqlQuery \o "\n\n" ELSE ""
    IN  IF Len(results) = 1 /\ hasCount(results[1])
        THEN header \o "The result is " \o countOf(results[1]) \o "."
        ELSE header \o "Found " \o numToString(Len(results)) \o " result(s):\n\n"
             \o listRows(results, 1)
             \o (IF Len(results) > 10
                 THEN "\n... and " \o numToString(Len(results) - 10) \o " more results."
                 ELSE "")

Queries ==
    { "SELECT Name FROM Artist LIMIT 10",
      "SELECT COUNT(*) as count FROM Track",
      "DROP TABLE Artist",
      "delete from Album",
      "Insert INTO Genre (Name) VALUES ('x')",
      "UPDATE Track SET UnitPrice = 0",
      "ALTER TABLE Artist ADD COLUMN Note TEXT",
      "alter table Album rename to Old",
      "SELEC nonsense" }

\* what db.allAsync can deliver: row sets, or a fault carrying a message
ResultSets ==
    { << >>,
      << << [key |-> "count", value |-> "275", isNull |-> FALSE] >> >>,
      << << [key |-> "Name", value |-> "AC/DC", isNull |-> FALSE],
            [key |-> "Composer", value |-> "", isNull |-> TRUE] >>,
         << [key |-> "Name", value |-> "Accept", isNull |-> FALSE],
            [key |-> "Composer", value |-> "", isNull |-> FALSE] >> >> }

\* statements with the rows that db.allAsync delivers for them, as handed
\* to formatResults (executeQuery returns before it when no row came back)
FormatInputs ==
    { [sqlQuery |-> "SELECT Name, Composer FROM Track LIMIT 2",
       results |-> << << [key |-> "Name", value |-> "AC/DC", isNull |-> FALSE],
                         [key |-> "Composer", value |-> "", isNull |-> TRUE] >>,
                      << [key |-> "Name", value |-> "Accept", isNull |-> FALSE],
                         [key |-> "Composer", value |-> "", isNull |-> FALSE] >> >>],
      [sqlQuery |-> "SELECT COUNT(*) as count FROM Track",
       results |-> << << [key |-> "count", value |-> "275", isNull |-> FALSE] >> >>],
      [sqlQuery |-> "SELECT COUNT(*) FROM Track",
       results |-> << << [key |-> "COUNT(*)", value |-> "275", isNull |-> FALSE] >> >>],
      [sqlQuery |-> "SELECT SUM(Total) AS total FROM Invoice",
       results |-> << << [key |-> "total", value |-> "2328", isNull |-> FALSE] >> >>],
      [sqlQuery |-> "SELECT Name FROM Artist WHERE ArtistId = 1",
       results |-> << << [key |-> "Name", value |-> "AC/DC", isNull |-> FALSE] >> >>],
      [sqlQuery |-> "SELECT GenreId, COUNT(*) AS count FROM Track GROUP BY GenreId LIMIT 1",
       results |-> << << [key |-> "GenreId", value |-> "1", isNull |-> FALSE],
                         [key |-> "count", value |-> "1297", isNull |-> FALSE] >> >>] }

DbFaults == { "SQLITE_ERROR: near \"SELEC\": syntax error" }

(***************************************************************************)
(* SqliteDataSource.generateSqlQuery (src/unnamed/part_005).  The file     *)
(* holds two definitions of the class; Version 1 is the first (lines       *)
(* 7-533), Version 2 the second (lines 540-741).  A block of the function  *)
(* is an operator whose value is << >> when the block falls through and    *)
(* << query >> when it returns.                                            *)
(***************************************************************************)
quoteChars == { "'", "\"" }

nameKeywords == << "artist", "album", "song", "track" >>

\* the positions of s at which sub occurs
occurrences(s, sub) ==
    { i \in 1..(Len(s) - Len(sub) + 1) : SubSeq(s, i, i + Len(sub) - 1) = sub }

\* the positions of s that hold a quote character
quotePositions(s) == { i \in 1..Len(s) : charAt(s, i) \in quoteChars }

min(S) == CHOOSE x \in S : \A y \in S : x <= y

\* the text between the quote at position i and the next quote
quotedFrom(s, i) ==
    SubSeq(s, i + 1, min({ j \in quotePositions(s) : j > i }) - 1)

\* the length of the run of the character ch that starts at position i
RECURSIVE run(_, _, _)
run(s, i, ch) ==
    IF i <= Len(s) /\ charAt(s, i) = ch THEN 1 + run(s, i + 1, ch) ELSE 0

\* the ends (first position after) of the occurrences of the name keywords
keywordEnds(s) ==
    UNION { { i + Len(nameKeywords[k]) : i \in occurrences(s, nameKeywords[k]) } :
            k \in 1..Len(nameKeywords) }

\* /(?:artist|album|song|track).*?(?:named|called)\\s+['"](.*?)['"]/ : in
\* the regular-expression literal \\s+ is a backslash followed by one or
\* more letters s.  The value is the set of positions of the opening quote
\* at which the pattern can place its capture.
namedAnchors(s) ==
    { q \in quotePositions(s) :
        /\ \E j \in quotePositions(s) : j > q
        /\ \E w \in { "named", "called" } : \E a \in occurrences(s, w) :
              /\ \E e \in keywordEnds(s) : e <= a
              /\ charAt(s, a + Len(w)) = "\\"
              /\ run(s, a + Len(w) + 1, "s") >= 1
              /\ q = a + Len(w) + 1 + run(s, a + Len(w) + 1, "s") }

\* /['"](.*?)['"].*?(?:artist|album|song|track)/ : the capture runs from
\* the first quote to the next one, and a keyword has to follow that one
quotedThenKeyword(s) ==
    /\ Cardinality(quotePositions(s)) >= 2
    /\ LET q == min(quotePositions(s))
           j == min({ p \in quotePositions(s) : p > q })
       IN  \E k \in 1..Len(nameKeywords) :
              \E i \in occurrences(s, nameKeywords[k]) : i > j

\* nameMatch: << >> for null, << nameMatch[1] >> otherwise
nameMatch(lowerQuestion) ==
    IF namedAnchors(lowerQuestion) # {}
    THEN << quotedFrom(lowerQuestion, min(namedAnchors(lowerQuestion))) >>
    ELSE IF quotedThenKeyword(lowerQuestion)
    THEN << quotedFrom(lowerQuestion, min(quotePositions(lowerQuestion))) >>
    ELSE << >>

\* /(?:first|top)\\s+(\\d+)\\s+(\\w+)/ : again every \\ is a backslash, so
\* the pattern reads first|top, backslash, s.., backslash, d.., backslash,
\* s.., backslash, w...  The value is << >> for null and otherwise
\* << firstMatch[1], firstMatch[2] >>.
firstMatchAt(s, p) ==
    LET n1 == run(s, p + 1, "s")
        p2 == p + 1 + n1
        n2 == run(s, p2 + 1, "d")
        p3 == p2 + 1 + n2
        n3 == run(s, p3 + 1, "s")
        p4 == p3 + 1 + n3
        n4 == run(s, p4 + 1, "w")
    IN  IF /\ charAt(s, p) = "\\" /\ n1 >= 1
           /\ charAt(s, p2) = "\\" /\ n2 >= 1
           /\ charAt(s, p3) = "\\" /\ n3 >= 1
           /\ charAt(s, p4) = "\\" /\ n4 >= 1
        THEN << SubSeq(s, p2, p2 + n2), SubSeq(s, p4, p4 + n4) >>
        ELSE << >>

firstMatch(lowerQuestion) ==
    LET hits == { p \in UNION { { i + Len(w) : i \in occurrences(lowerQuestion, w) } :
                                w \in { "first", "top" } } :
                     firstMatchAt(lowerQuestion, p) # << >> }
    IN  IF hits = {} THEN << >> ELSE firstMatchAt(lowerQuestion, min(hits))

\* `${parseInt(firstMatch[1])}`: the capture begins with a backslash, which
\* is no digit, so the number is NaN
parseIntText(text) ==
    IF Len(text) > 0 /\ charAt(text, 1) = "\\" THEN "NaN" ELSE text

\* the block `if (lowerQuestion.includes('all') || lowerQuestion.includes('list'))`
listBlock(version, lowerQuestion) ==
    IF ~(includes(lowerQuestion, "all") \/ includes(lowerQuestion, "list")) THEN << >>
    ELSE IF version = 2
    THEN IF includes(lowerQuestion, "artist") THEN << "SELECT * FROM artists LIMIT 10" >>
         ELSE IF includes(lowerQuestion, "album") THEN << "SELECT * FROM albums LIMIT 10" >>
         ELSE IF includes(lowerQuestion, "song") \/ includes(lowerQuestion, "track")
         THEN << "SELECT * FROM tracks LIMIT 10" >>
         ELSE << >>
    ELSE IF includes(lowerQuestion, "artist") THEN << "SELECT * FROM Artist ORDER BY Name" >>
    ELSE IF includes(lowerQuestion, "album") THEN << "SELECT Album.AlbumId, Album.Title, Artist.Name as ArtistName \n                       FROM Album \n                       INNER JOIN Artist ON Album.ArtistId = Artist.ArtistId \n                       ORDER BY Artist.Name, Album.Title" >>
    ELSE IF includes(lowerQuestion, "song") \/ includes(lowerQuestion, "track")
    THEN << "SELECT Track.TrackId, Track.Name, Album.Title as AlbumTitle, Artist.Name as ArtistName\n                       FROM Track \n                       INNER JOIN Album ON Track.AlbumId = Album.AlbumId\n                       INNER JOIN Artist ON Album.ArtistId = Artist.ArtistId\n                       ORDER BY Artist.Name, Album.Title, Track.TrackId" >>
    ELSE IF includes(lowerQuestion, "customer") THEN << "SELECT * FROM Customer ORDER BY LastName, FirstName" >>
    ELSE IF includes(lowerQuestion, "employee") THEN << "SELECT * FROM Employee ORDER BY LastName, FirstName" >>
    ELSE IF includes(lowerQuestion, "invoice") THEN << "SELECT Invoice.InvoiceId, Invoice.InvoiceDate, Customer.FirstName, Customer.LastName, Invoice.Total\n                       FROM Invoice \n                       INNER JOIN Customer ON Invoice.CustomerId = Customer.CustomerId\n                       ORDER BY Invoice.InvoiceDate DESC" >>
    ELSE IF includes(lowerQuestion, "genre") THEN << "SELECT * FROM Genre ORDER BY Name" >>
    ELSE IF includes(lowerQuestion, "playlist") THEN << "SELECT * FROM Playlist ORDER BY Name" >>
    ELSE IF includes(lowerQuestion, "mediatype") THEN << "SELECT * FROM MediaType ORDER BY Name" >>
    ELSE IF includes(lowerQuestion, "playlisttrack") THEN << "SELECT PlaylistTrack.PlaylistId, PlaylistTrack.TrackId, \n                       Playlist.Name as PlaylistName, Track.Name as TrackName\n                       FROM PlaylistTrack \n                       INNER JOIN Playlist ON PlaylistTrack.PlaylistId = Playlist.PlaylistId\n                       INNER JOIN Track ON PlaylistTrack.TrackId = Track.TrackId\n                       ORDER BY PlaylistTrack.PlaylistId, PlaylistTrack.TrackId" >>
    ELSE IF includes(lowerQuestion, "invoiceline") THEN << "SELECT InvoiceLine.InvoiceLineId, InvoiceLine.InvoiceId, \n                       Track.Name as TrackName, InvoiceLine.UnitPrice, InvoiceLine.Quantity\n                       FROM InvoiceLine \n                       INNER JOIN Track ON InvoiceLine.TrackId = Track.TrackId\n                       ORDER BY InvoiceLine.InvoiceId, InvoiceLine.InvoiceLineId" >>
    ELSE << >>

\* the block `if (lowerQuestion.includes('count') || lowerQuestion.includes('how many'))`;
\* Version 2 tests 'count' only
countBlock(version, lowerQuestion) ==
    IF version = 2
    THEN IF ~includes(lowerQuestion, "count") THEN << >>
         ELSE IF includes(lowerQuestion, "artist") THEN << "SELECT COUNT(*) as count FROM artists" >>
         ELSE IF includes(lowerQuestion, "album") THEN << "SELECT COUNT(*) as count FROM albums" >>
         ELSE IF includes(lowerQuestion, "song") \/ includes(lowerQuestion, "track")
         THEN << "SELECT COUNT(*) as count FROM tracks" >>
         ELSE << >>
    ELSE IF ~(includes(lowerQuestion, "count") \/ includes(lowerQuestion, "how many"))
    THEN << >>
    ELSE IF includes(lowerQuestion, "artist") THEN << "SELECT COUNT(*) as count FROM Artist" >>
    ELSE IF includes(lowerQuestion, "album") THEN << "SELECT COUNT(*) as count FROM Album" >>
    ELSE IF includes(lowerQuestion, "song") \/ includes(lowerQuestion, "track")
    THEN << "SELECT COUNT(*) as count FROM Track" >>
    ELSE IF includes(lowerQuestion, "customer") THEN << "SELECT COUNT(*) as count FROM Customer" >>
    ELSE IF includes(lowerQuestion, "employee") THEN << "SELECT COUNT(*) as count FROM Employee" >>
    ELSE IF includes(lowerQuestion, "invoice") THEN << "SELECT COUNT(*) as count FROM Invoice" >>
    ELSE IF includes(lowerQuestion, "genre") THEN << "SELECT COUNT(*) as count FROM Genre" >>
    ELSE IF includes(lowerQuestion, "playlist") THEN << "SELECT COUNT(*) as count FROM Playlist" >>
    ELSE IF includes(lowerQuestion, "mediatype") THEN << "SELECT COUNT(*) as count FROM MediaType" >>
    ELSE IF includes(lowerQuestion, "playlisttrack") THEN << "SELECT COUNT(*) as count FROM PlaylistTrack" >>
    ELSE IF includes(lowerQuestion, "invoiceline") THEN << "SELECT COUNT(*) as count FROM InvoiceLine" >>
    ELSE << >>

\* the block `if (nameMatch)`: the captured text is put between the
\* percent signs of the LIKE value as it stands
nameBlock(version, lowerQuestion) ==
    IF nameMatch(lowerQuestion) = << >> THEN << >>
    ELSE LET searchTerm == nameMatch(lowerQuestion)[1]
         IN  IF includes(lowerQuestion, "artist")
             THEN << IF version = 1 THEN "SELECT * FROM Artist WHERE Name LIKE '%" \o searchTerm \o "%'" ELSE "SELECT * FROM artists WHERE name LIKE '%" \o searchTerm \o "%'" >>
             ELSE IF includes(lowerQuestion, "album")
             THEN << IF version = 1 THEN "SELECT * FROM Album WHERE Title LIKE '%" \o searchTerm \o "%'" ELSE "SELECT * FROM albums WHERE title LIKE '%" \o searchTerm \o "%'" >>
             ELSE IF includes(lowerQuestion, "song") \/ includes(lowerQuestion, "track")
             THEN << IF version = 1 THEN "SELECT * FROM Track WHERE Name LIKE '%" \o searchTerm \o "%'" ELSE "SELECT * FROM tracks WHERE name LIKE '%" \o searchTerm \o "%'" >>
             ELSE << >>

\* Version 1, lines 227-247
joinBlock(lowerQuestion) ==
    IF includes(lowerQuestion, "album") /\ includes(lowerQuestion, "artist")
    THEN << "SELECT Album.Title as AlbumTitle, Artist.Name as ArtistName \n                       FROM Album \n                       INNER JOIN Artist ON Album.ArtistId = Artist.ArtistId \n                       LIMIT 20" >>
    ELSE IF includes(lowerQuestion, "track") /\ includes(lowerQuestion, "album")
    THEN << "SELECT Track.Name as TrackName, Album.Title as AlbumTitle, Artist.Name as ArtistName\n                       FROM Track \n                       INNER JOIN Album ON Track.AlbumId = Album.AlbumId\n                       INNER JOIN Artist ON Album.ArtistId = Artist.ArtistId\n                       LIMIT 20" >>
    ELSE << >>

\* Version 1, the block `if (firstMatch)`
firstBlock(lowerQuestion) ==
    IF firstMatch(lowerQuestion) = << >> THEN << >>
    ELSE LET limit  == parseIntText(firstMatch(lowerQuestion)[1])
             entity == toLowerCase(firstMatch(lowerQuestion)[2])
         IN  IF includes(entity, "album") THEN << "SELECT Album.AlbumId, Album.Title, Artist.Name as ArtistName \n                           FROM Album \n                           INNER JOIN Artist ON Album.ArtistId = Artist.ArtistId \n                           ORDER BY Album.AlbumId\n                           LIMIT " \o limit >>
             ELSE IF includes(entity, "artist") THEN << "SELECT * FROM Artist ORDER BY Name LIMIT " \o limit >>
             ELSE IF includes(entity, "track") \/ includes(entity, "song")
             THEN << "SELECT Track.Name, Album.Title as AlbumTitle, Artist.Name as ArtistName\n                           FROM Track \n                           INNER JOIN Album ON Track.AlbumId = Album.AlbumId\n                           INNER JOIN Artist ON Album.ArtistId = Artist.ArtistId\n                           ORDER BY Track.TrackId\n                           LIMIT " \o limit >>
             ELSE IF includes(entity, "customer") THEN << "SELECT * FROM Customer ORDER BY CustomerId LIMIT " \o limit >>
             ELSE IF includes(entity, "invoice") /\ ~includes(entity, "invoiceline")
             THEN << "SELECT Invoice.InvoiceId, Invoice.InvoiceDate, Customer.FirstName, Customer.LastName, Invoice.Total\n                           FROM Invoice \n                           INNER JOIN Customer ON Invoice.CustomerId = Customer.CustomerId\n                           ORDER BY Invoice.InvoiceDate DESC\n                           LIMIT " \o limit >>
             ELSE IF includes(entity, "invoiceline") THEN << "SELECT InvoiceLine.InvoiceLineId, Track.Name as TrackName, InvoiceLine.UnitPrice, InvoiceLine.Quantity\n                           FROM InvoiceLine \n                           INNER JOIN Track ON InvoiceLine.TrackId = Track.TrackId\n                           ORDER BY InvoiceLine.InvoiceLineId\n                           LIMIT " \o limit >>
             ELSE << >>

\* Version 1, lines 308-374
reportBlock(lowerQuestion) ==
    IF includes(lowerQuestion, "sales") \/ includes(lowerQuestion, "revenue")
    THEN << "SELECT Customer.FirstName, Customer.LastName, SUM(Invoice.Total) as TotalSpent\n                       FROM Customer \n                       INNER JOIN Invoice ON Customer.CustomerId = Invoice.CustomerId\n                       GROUP BY Customer.CustomerId\n                       ORDER BY TotalSpent DESC" >>
    ELSE IF includes(lowerQuestion, "popular") /\ includes(lowerQuestion, "track")
    THEN << "SELECT Track.Name, Album.Title, Artist.Name, COUNT(InvoiceLine.TrackId) as TimesPurchased\n                       FROM Track\n                       INNER JOIN Album ON Track.AlbumId = Album.AlbumId\n                       INNER JOIN Artist ON Album.ArtistId = Artist.ArtistId\n                       LEFT JOIN InvoiceLine ON Track.TrackId = InvoiceLine.TrackId\n                       GROUP BY Track.TrackId\n                       ORDER BY TimesPurchased DESC" >>
    ELSE IF includes(lowerQuestion, "tracks") /\ includes(lowerQuestion, "playlist")
    THEN << "SELECT Playlist.Name as PlaylistName, COUNT(PlaylistTrack.TrackId) as NumberOfTracks\n                       FROM Playlist \n                       LEFT JOIN PlaylistTrack ON Playlist.PlaylistId = PlaylistTrack.PlaylistId\n                       GROUP BY Playlist.PlaylistId, Playlist.Name\n                       ORDER BY NumberOfTracks DESC" >>
    ELSE IF \/ includes(lowerQuestion, "format")
            \/ includes(lowerQuestion, "media") /\ includes(lowerQuestion, "type")
    THEN << "SELECT MediaType.Name as MediaFormat, COUNT(Track.TrackId) as NumberOfTracks\n                       FROM MediaType \n                       LEFT JOIN Track ON MediaType.MediaTypeId = Track.MediaTypeId\n                       GROUP BY MediaType.MediaTypeId, MediaType.Name\n                       ORDER BY NumberOfTracks DESC" >>
    ELSE IF includes(lowerQuestion, "detailed") /\ includes(lowerQuestion, "invoice")
    THEN << "SELECT Invoice.InvoiceId, Invoice.InvoiceDate, Customer.FirstName, Customer.LastName,\n                       Track.Name as TrackName, InvoiceLine.UnitPrice, InvoiceLine.Quantity,\n                       (InvoiceLine.UnitPrice * InvoiceLine.Quantity) as LineTotal\n                       FROM Invoice \n                       INNER JOIN Customer ON Invoice.CustomerId = Customer.CustomerId\n                       INNER JOIN InvoiceLine ON Invoice.InvoiceId = InvoiceLine.InvoiceId\n                       INNER JOIN Track ON InvoiceLine.TrackId = Track.TrackId\n                       ORDER BY Invoice.InvoiceDate DESC, Invoice.InvoiceId" >>
    ELSE IF includes(lowerQuestion, "tables") \/ includes(lowerQuestion, "structure")
    THEN << "SELECT name as TableName FROM sqlite_master WHERE type='table' AND name NOT LIKE 'sqlite_%' ORDER BY name" >>
    ELSE << >>

\* the query the two loops of Version 1 return for a table
tableQuery(table) ==
    IF table = "PlaylistTrack" THEN "SELECT PlaylistTrack.*, Playlist.Name as PlaylistName, Track.Name as TrackName\n                           FROM PlaylistTrack \n                           INNER JOIN Playlist ON PlaylistTrack.PlaylistId = Playlist.PlaylistId\n                           INNER JOIN Track ON PlaylistTrack.TrackId = Track.TrackId\n                           ORDER BY PlaylistTrack.PlaylistId, PlaylistTrack.TrackId"
    ELSE IF table = "InvoiceLine" THEN "SELECT InvoiceLine.*, Track.Name as TrackName\n                           FROM InvoiceLine \n                           INNER JOIN Track ON InvoiceLine.TrackId = Track.TrackId\n                           ORDER BY InvoiceLine.InvoiceLineId"
    ELSE LET idColumn == table \o "Id"
         IN  "SELECT * FROM " \o table \o " ORDER BY " \o idColumn

\* Version 1, `for (const table of tables)`
tableBlock(lowerQuestion, tables) ==
    LET hits == { k \in 1..Len(tables) :
                    includes(lowerQuestion, toLowerCase(tables[k])) }
    IN  IF hits = {} THEN << >> ELSE << tableQuery(tables[min(hits)]) >>

\* the terms createTableMapping adds for a table after its lower-cased name
tableAliases(table) ==
    IF table = "Artist" THEN << "artists", "musician", "musicians" >>
    ELSE IF table = "Album" THEN << "albums", "record", "records" >>
    ELSE IF table = "Track" THEN << "tracks", "song", "songs", "music" >>
    ELSE IF table = "Customer" THEN << "customers", "client", "clients" >>
    ELSE IF table = "Invoice"
         THEN << "invoices", "sale", "sales", "purchase", "purchases" >>
    ELSE IF table = "InvoiceLine"
         THEN << "invoicelines", "invoiceline", "lineitem", "lineitems" >>
    ELSE IF table = "PlaylistTrack" THEN << "playlisttracks", "playlisttrack" >>
    ELSE IF table = "MediaType"
         THEN << "mediatypes", "mediatype", "format", "formats" >>
    ELSE IF table = "Genre" THEN << "genres", "category", "categories" >>
    ELSE IF table = "Employee" THEN << "employees", "staff", "worker", "workers" >>
    ELSE IF table = "Playlist" THEN << "playlists" >>
    ELSE << >>

\* the assignments mapping[term] = table that createTableMapping makes, in
\* the order it makes them
RECURSIVE mappingAssignments(_)
mappingAssignments(tables) ==
    IF Len(tables) = 0 THEN << >>
    ELSE LET table == tables[1]
             terms == << toLowerCase(table) >> \o tableAliases(table)
         IN  [k \in 1..Len(terms) |-> [term |-> terms[k], table |-> table]]
             \o mappingAssignments(Tail(tables))

\* the object createTableMapping returns, as the sequence of its entries:
\* a term stands where it was first assigned and maps to the table it was
\* last assigned
createTableMapping(tables) ==
    LET assigned == mappingAssignments(tables)
        last(i)  == CHOOSE j \in 1..Len(assigned) :
                       /\ assigned[j].term = assigned[i].term
                       /\ \A h \in (j + 1)..Len(assigned) :
                             assigned[h].term # assigned[i].term
        marked   == [i \in 1..Len(assigned) |->
                       [term  |-> assigned[i].term,
                        table |-> assigned[last(i)].table,
                        first |-> \A h \in 1..(i - 1) :
                                     assigned[h].term # assigned[i].term]]
        kept     == SelectSeq(marked, LAMBDA e : e.first)
    IN  [k \in 1..Len(kept) |-> [term |-> kept[k].term, table |-> kept[k].table]]

\* Version 1, `for (const [term, tableName] of Object.entries(tableMapping))`
mappingBlock(lowerQuestion, tables) ==
    LET tableMapping == createTableMapping(tables)
        hits == { k \in 1..Len(tableMapping) :
                    includes(lowerQuestion, tableMapping[k].term) }
    IN  IF hits = {} THEN << >>
        ELSE << tableQuery(tableMapping[min(hits)].table) >>

\* the closing statements; tables[0] of an empty array is undefined
defaultQuery(version, tables) ==
    LET firstTable == IF Len(tables) = 0 THEN "undefined" ELSE tables[1]
    IN  IF version = 2 THEN "SELECT * FROM " \o firstTable \o " LIMIT 5"
        ELSE IF \E k \in 1..Len(tables) : tables[k] = "Album" THEN "SELECT Album.Title, Artist.Name FROM Album INNER JOIN Artist ON Album.ArtistId = Artist.ArtistId ORDER BY Artist.Name LIMIT 20"
        ELSE "SELECT * FROM " \o firstTable \o " LIMIT 20"

\* the first block that returns
RECURSIVE firstReturn(_)
firstReturn(blocks) ==
    IF Len(blocks) = 0 THEN << >>
    ELSE IF blocks[1] # << >> THEN blocks[1]
    ELSE firstReturn(Tail(blocks))

\* generateSqlQuery(question, schemas) for the schema of the first
\* database: schema.present is FALSE when schemas[dbName] is null or
\* undefined, schema.tables is Object.keys(schema).  The value is << >>
\* for null and otherwise << the query text >>.
generateSqlQuery(version, question, schema) ==
    LET lowerQuestion == toLowerCase(question)
    IN  IF ~schema.present THEN << >>
        ELSE IF version = 2
        THEN firstReturn(<< listBlock(2, lowerQuestion),
                            countBlock(2, lowerQuestion),
                            nameBlock(2, lowerQuestion),
                            << defaultQuery(2, schema.tables) >> >>)
        ELSE firstReturn(<< listBlock(1, lowerQuestion),
                            countBlock(1, lowerQuestion),
                            nameBlock(1, lowerQuestion),
                            joinBlock(lowerQuestion),
                            firstBlock(lowerQuestion),
                            reportBlock(lowerQuestion),
                            tableBlock(lowerQuestion, schema.tables),
                            mappingBlock(lowerQuestion, schema.tables),
                            << defaultQuery(1, schema.tables) >> >>)

\* Object.keys of the schema of the first database: none (no database, or
\* getSchema failed), the sample database's tables, the tables Version 2
\* names, no table
chinookTables ==
    << "Album", "Artist", "Customer", "Employee", "Genre", "Invoice",
       "InvoiceLine", "MediaType", "Playlist", "PlaylistTrack", "Track" >>

Schemas ==
    { [present |-> FALSE, tables |-> << >>],
      [present |-> TRUE, tables |-> chinookTables],
      [present |-> TRUE, tables |-> << "artists", "albums", "tracks" >>],
      [present |-> TRUE, tables |-> << >>] }

SqliteQuestions ==
    { "List all artists", "Show all albums", "list every song",
      "List all customers", "all invoicelines please", "list playlisttrack rows",
      "How many tracks are there?", "count the genres", "How many employees?",
      "Is there a \"Drop\" album?", "songs by 'Queen' the artist",
      "Find \"x'; DELETE FROM Track;--\" track", "artist named\\s'ac/dc'",
      "track named\\sss\"delete me\"", "which album has which artist",
      "track per album", "top\\s\\d\\s\\w customers", "first 5 albums",
      "total revenue", "most popular track", "tracks per playlist",
      "what media type", "detailed invoice report", "database structure",
      "our staff", "musicians", "lineitems", "Hello there" }

(***************************************************************************)
(* Messages of the graph state (MessagesAnnotation).                       *)
(***************************************************************************)
HumanMessage(content) ==
    [type |-> "human", content |-> content, tool_calls |-> << >>,
     name |-> "", status |-> ""]

AIMessage(content, toolCalls) ==
    [type |-> "ai", content |-> content, tool_calls |-> toolCalls,
     name |-> "", status |-> ""]

\* what ToolNode appends for one invocation
ToolMessage(name, content, status) ==
    [type |-> "tool", content |-> content, tool_calls |-> << >>,
     name |-> name, status |-> status]

systemMessage(userInput) ==
    HumanMessage(
        "You are an intelligent AI agent with access to multiple tools. \n            \nYour tools:\n"
        \o "1. database_query - Use for questions about music (artists, albums, songs, music data)\n"
        \o "2. file_search - Use for questions about economics, economic theory, economists, economic books\n"
        \o "3. execute_command - Use for current/external information (weather, time, news, system info)\n\n"
        \o "Analyze the user's question and decide which tool(s) to use, if any. If no tools are needed, respond directly.\n\n"
        \o "User question: " \o userInput)

ApologyPrefix ==
    "I'm sorry, I encountered an error while processing your request: "

\* ToolNode's rendering of a fault raised by a tool (handleToolErrors)
toolErrorContent(message) == "Error: " \o message \o "\n Please fix your mistakes."

(***************************************************************************)
(* ToolRouter (src/unnamed/part_004).  reply is what this.llm.invoke gave:  *)
(* a response with its content, or a fault.                                *)
(***************************************************************************)
validRoutes == << "sqlite", "document", "bash", "direct" >>

sqliteKeywords ==
    << "music", "song", "album", "artist", "band", "track", "database", "sql", "query" >>

documentKeywords ==
    << "economics", "economic", "economist", "book", "author", "theory", "smith",
       "keynes", "marx", "ricardo" >>

bashKeywords ==
    << "weather", "current", "latest", "news", "search", "download", "web",
       "internet", "api" >>

\* keywords.some(keyword => lowerQuestion.includes(keyword))
someIncluded(keywords, lowerQuestion) ==
    \E k \in 1..Len(keywords) : includes(lowerQuestion, keywords[k])

fallbackRoute(question) ==
    LET lowerQuestion == toLowerCase(question)
    IN  IF someIncluded(sqliteKeywords, lowerQuestion) THEN "sqlite"
        ELSE IF someIncluded(documentKeywords, lowerQuestion) THEN "document"
        ELSE IF someIncluded(bashKeywords, lowerQuestion) THEN "bash"
        ELSE "direct"

\* variant: the label of the model is returned as it is
routeUnvalidated(question, reply) ==
    IF reply.kind = "ok" THEN toLowerCase(trim(reply.content))
    ELSE fallbackRoute(question)

route(question, reply) ==
    IF reply.kind = "ok"
    THEN LET label == toLowerCase(trim(reply.content))
         IN  IF \E k \in 1..Len(validRoutes) : validRoutes[k] = label
             THEN label
             ELSE fallbackRoute(question)
    ELSE fallbackRoute(question)

RouterQuestions ==
    { "What songs are in the database?", "Tell me about Adam Smith",
      "What's the current weather?", "Hello, how are you?",
      "WHICH ALBUM IS BEST?", "Any Keynes on the web?" }

\* what the model answers to the routing prompt, or the fault of the call
RouterReplies ==
    { [kind |-> "ok", content |-> c] :
        c \in { "sqlite", "document", " Bash\n", "DIRECT", "sqlite.",
                "I would use document", "" } }
    \cup { [kind |-> "fault", content |-> "429 Too Many Requests"] }

(***************************************************************************)
(* DocumentDataSource (src/src/datasources/document.js).  In the regular   *)
(* expression literals of the file a doubled backslash stands for one       *)
(* backslash character of the text matched.                                *)
(***************************************************************************)
economicsTerms ==
    << "adam smith", "keynes", "marx", "ricardo", "mill", "marshall", "schumpeter",
       "wealth of nations", "invisible hand", "comparative advantage", "labor theory",
       "supply", "demand", "capitalism", "socialism", "communism", "free market",
       "economic", "economics", "economy", "trade", "value", "price", "money",
       "competition", "monopoly", "elasticity", "equilibrium", "inflation",
       "unemployment", "fiscal", "monetary", "policy", "government", "intervention" >>

stopWords ==
    { "what", "who", "how", "why", "when", "where", "the", "and", "but", "for",
      "are", "was", "were", "been", "have", "has", "had", "will", "would",
      "could", "should", "may", "might", "can", "about", "tell", "explain",
      "describe" }

\* the function f on 1..n as a sequence
asSeq(f) == SubSeq(f, 1, Len(f))

isLowerLetter(c) == \E i \in 1..Len(LowerChars) : charAt(LowerChars, i) = c

\* the length of the run of lower-case letters that starts at position i
RECURSIVE letterRun(_, _)
letterRun(s, i) ==
    IF i <= Len(s) /\ isLowerLetter(charAt(s, i)) THEN 1 + letterRun(s, i + 1) ELSE 0

\* lowerQuestion.match(/\\b[a-z]{3,}\\b/g): the matches from position p on;
\* a match is a backslash, the letter b, three or more lower-case letters,
\* a backslash and the letter b
RECURSIVE wordMatches(_, _)
wordMatches(s, p) ==
    IF p > Len(s) THEN << >>
    ELSE LET n == letterRun(s, p + 2)
         IN  IF /\ p + 3 + n <= Len(s)
                /\ SubSeq(s, p, p + 1) = "\\b"
                /\ n >= 3
                /\ SubSeq(s, p + 2 + n, p + 3 + n) = "\\b"
             THEN << SubSeq(s, p, p + 3 + n) >> \o wordMatches(s, p + 4 + n)
             ELSE wordMatches(s, p + 1)

\* [...new Set(seq)]: the first occurrence of each element, in order
RECURSIVE distinct(_)
distinct(seq) ==
    IF seq = << >> THEN << >>
    ELSE LET front == distinct(SubSeq(seq, 1, Len(seq) - 1))
             x == seq[Len(seq)]
         IN  IF \E k \in 1..Len(front) : front[k] = x THEN front
             ELSE Append(front, x)

extractSearchTerms(question) ==
    LET lowerQuestion == toLowerCase(question)
        foundTerms == SelectSeq(economicsTerms,
                                LAMBDA term : includes(lowerQuestion, term))
        words == wordMatches(lowerQuestion, 1)
        relevantWords == SelectSeq(words, LAMBDA word : word \notin stopWords)
    IN  distinct(foundTerms \o relevantWords)

\* content.split(/(?=##)/): the text is cut before every position, the
\* first excepted, at which two number signs follow
splitPoints(content) ==
    { p \in 2..(Len(content) - 1) : SubSeq(content, p, p + 1) = "##" }

RECURSIVE piecesFrom(_, _)
piecesFrom(content, p) ==
    LET later == { q \in splitPoints(content) : q > p }
    IN  IF later = { } THEN << SubSeq(content, p, Len(content)) >>
        ELSE << SubSeq(content, p, min(later) - 1) >>
             \o piecesFrom(content, min(later))

splitSections(content) == piecesFrom(content, 1)

isWordChar(c) ==
    isLowerLetter(c) \/ c = "_" \/ \E i \in 1..10 : charAt("0123456789", i) = c

\* the matches of the plain text sub in s from position p on, one after
\* the other
RECURSIVE countPlain(_, _, _)
countPlain(s, sub, p) ==
    IF p + Len(sub) - 1 > Len(s) THEN 0
    ELSE IF SubSeq(s, p, p + Len(sub) - 1) = sub
    THEN 1 + countPlain(s, sub, p + Len(sub))
    ELSE countPlain(s, sub, p + 1)

\* the same for a word between two word boundaries
RECURSIVE countWord(_, _, _)
countWord(s, word, p) ==
    IF p + Len(word) - 1 > Len(s) THEN 0
    ELSE IF /\ SubSeq(s, p, p + Len(word) - 1) = word
            /\ (p = 1 \/ ~isWordChar(charAt(s, p - 1)))
            /\ (p + Len(word) > Len(s) \/ ~isWordChar(charAt(s, p + Len(word))))
    THEN 1 + countWord(s, word, p + Len(word))
    ELSE countWord(s, word, p + 1)

\* (sectionLower.match(new RegExp(term, 'g')) || []).length; the replace
\* applied to the term changes nothing, since no term holds one of the
\* listed characters followed by two backslashes and a bracket.  A term
\* taken by wordMatches reads, as a pattern, as its word between two word
\* boundaries; every other term is letters and spaces.
termCount(sectionLower, term) ==
    IF startsWith(term, "\\b")
    THEN countWord(sectionLower, SubSeq(term, 3, Len(term) - 2), 1)
    ELSE countPlain(sectionLower, term, 1)

RECURSIVE sum(_)
sum(seq) == IF seq = << >> THEN 0 ELSE Head(seq) + sum(Tail(seq))

\* the body of the loop over the sections: the entry pushed for the
\* section, with its position in the document
scoreSection(section, position, searchTerms) ==
    LET sectionLower == toLowerCase(section)
        matchedTerms == SelectSeq(searchTerms,
                                  LAMBDA term : termCount(sectionLower, term) > 0)
        counts == asSeq([k \in 1..Len(matchedTerms) |->
                            termCount(sectionLower, matchedTerms[k])])
        bonus == IF includes(section, "###") \/ includes(section, "##") THEN 2 ELSE 0
    IN  [content |-> trim(section), position |-> position,
         score |-> sum(counts) + bonus, matchedTerms |-> matchedTerms]

\* Array.prototype.sort with (a, b) => b.score - a.score: by falling score,
\* entries of equal score in their order
RECURSIVE sortByScore(_)
sortByScore(matches) ==
    IF matches = << >> THEN << >>
    ELSE LET best == CHOOSE k \in 1..Len(matches) :
                        /\ \A j \in 1..Len(matches) : matches[j].score <= matches[k].score
                        /\ \A j \in 1..(k - 1) : matches[j].score < matches[k].score
         IN  << matches[best] >>
             \o sortByScore(SubSeq(matches, 1, best - 1)
                            \o SubSeq(matches, best + 1, Len(matches)))

slice(seq, n) == SubSeq(seq, 1, IF Len(seq) < n THEN Len(seq) ELSE n)

\* the entries pushed by the loop over the sections
scoredSections(content, searchTerms) ==
    LET sections == splitSections(content)
        scored == asSeq([k \in 1..Len(sections) |->
                            scoreSection(sections[k], k, searchTerms)])
    IN  SelectSeq(scored, LAMBDA match : match.score > 0)

\* variant: the entries are returned in document order
findMatchesUnsorted(content, searchTerms) ==
    slice(scoredSections(content, searchTerms), 3)

findMatches(content, searchTerms) ==
    slice(sortByScore(scoredSections(content, searchTerms)), 3)

NoRelevantInformation ==
    "No relevant information found in the documents. Please try rephrasing your question or asking about economics-related topics."

NoSpecificMatches ==
    "No specific matches found, but I have access to documents about economics. Please ask more specific questions about economic theories, economists, or economic concepts."

RECURSIVE flatten(_)
flatten(seqs) == IF seqs = << >> THEN << >> ELSE Head(seqs) \o flatten(Tail(seqs))

\* formatSearchResults, the response given by its parts: the number of
\* documents of the first and the last line and, in the order in which the
\* response shows them, the sections previewed with the document of each
formatSearchResults(results) ==
    LET shown == flatten(asSeq([k \in 1..Len(results) |->
                    asSeq([j \in 1..Len(slice(results[k].matches, 2)) |->
                        [docName |-> results[k].docName,
                         match |-> results[k].matches[j]]])]))
    IN  IF Len(shown) = 0
        THEN [message |-> << NoSpecificMatches >>, documents |-> 0, sections |-> << >>]
        ELSE [message |-> << >>, documents |-> Len(results), sections |-> shown]

\* documents is this.documents in insertion order
search(documents, userQuestion) ==
    LET searchTerms == extractSearchTerms(userQuestion)
        found == asSeq([k \in 1..Len(documents) |->
                     [docName |-> documents[k].docName,
                      matches |-> findMatches(documents[k].content, searchTerms)]])
        results == SelectSeq(found, LAMBDA r : Len(r.matches) > 0)
    IN  IF Len(results) = 0
        THEN [message |-> << NoRelevantInformation >>, documents |-> 0,
              sections |-> << >>]
        ELSE formatSearchResults(results)

economyBooks ==
    [docName |-> "economy_books",
     content |-> "Economics notes\n## Adam Smith\nAdam Smith and the invisible hand. Smith on trade.\n### Keynes\nKeynes on demand and demand.\n## Marx\nMarx on value and trade.\n## Mill\nMill on trade."]

lectureNotes ==
    [docName |-> "lecture_notes",
     content |-> "## Ricardo\nRicardo: trade, trade, trade and comparative advantage.\n## Appendix\nNothing here."]

plainText ==
    [docName |-> "plain",
     content |-> "Adam Smith wrote about trade. Trade and value; a windmill."]

\* what initialize has loaded
DocumentSets ==
    { << plainText >>, << economyBooks >>, << economyBooks, lectureNotes >>,
      << plainText, lectureNotes >> }

DocumentQuestions ==
    { "Tell me about Adam Smith", "What about trade?", "Hello there",
      "Keynes and demand", "Keynes and trade", "Is \\bmill\\b the \\bwho\\b?", "value" }

(***************************************************************************)
(* FileTool: result strings and formatResults; the accented letters are     *)
(* written without their accents.                                          *)
(***************************************************************************)
NotInitializedMessage ==
    "A ferramenta de arquivos ainda nao foi inicializada. Por favor, aguarde."

NoRelevantMessage ==
    "Nenhuma informacao relevante foi encontrada nos documentos para esta consulta."

\* `${index + 1}` for the at most 4 chunks of a search
chunkNumber(i) == SubSeq("1234", i, i)

RECURSIVE formatChunks(_, _)
formatChunks(results, i) ==
    IF i > Len(results) THEN ""
    ELSE "--- Trecho " \o chunkNumber(i) \o " (Fonte: " \o results[i].source
         \o ") ---\n" \o results[i].pageContent \o "\n\n"
         \o formatChunks(results, i + 1)

fileFormatResults(results) ==
    "Contexto relevante encontrado nos documentos:\n\n" \o formatChunks(results, 1)

(***************************************************************************)
(* The environment's choices.                                              *)
(***************************************************************************)
UserInputs == { "What time is it?", "Hello, how are you today?" }

ModelCommands == { "date", "rm -rf /", "timeout python" }

ModelQueries ==
    { "SELECT COUNT(*) as count FROM Track",
      "ALTER TABLE Artist ADD COLUMN Note TEXT",
      "DROP TABLE Artist" }

ModelSearches == { "Adam Smith" }

ToolCallChoices ==
    { [name |-> "execute_command", arg |-> c] : c \in ModelCommands }
    \cup { [name |-> "database_query", arg |-> q] : q \in ModelQueries }
    \cup { [name |-> "file_search", arg |-> "Adam Smith"] }
    \cup { [name |-> "file_content_retriever", arg |-> q] : q \in ModelSearches }

RECURSIVE SeqsUpTo(_, _)
SeqsUpTo(S, n) ==
    IF n = 0 THEN { << >> }
    ELSE SeqsUpTo(S, n - 1)
         \cup { Append(q, x) : q \in { r \in SeqsUpTo(S, n - 1) : Len(r) = n - 1 },
                               x \in S }

FinalAnswers == { "Here is your answer." }

ModelFaults == { "429 rate limit exceeded" }

PromptAnswers == { "y", "YES", "n", "" }

Stdouts == { "", "Mon Nov  2 04:40:00 UTC 2026\n" }

ExecFaults == { "Command failed: timeout" }

\* what similaritySearch resolves to (at most 4 chunks) or fails with
SearchResults ==
    { << >>,
      << [pageContent |-> "Adam Smith was a Scottish economist.",
          source |-> "economy_books.txt"] >>,
      << [pageContent |-> "Adam Smith was a Scottish economist.",
          source |-> "economy_books.txt"],
         [pageContent |-> "The invisible hand.", source |-> "economy_books.txt"] >> }

SearchFaults == { "401 Incorrect API key provided" }

\* the .db files initialize finds, in readdir order (empty: none or no directory)
DbFileSets == { << >>, << "music" >>, << "archive", "music" >> }

(***************************************************************************)
(* State.                                                                  *)
(***************************************************************************)
VARIABLES
    design,              \* which of the two architectures the process assembles
    requireDefined,      \* is `require` bound in terminal-tool.js's module scope
    platform,            \* process.platform
    dbVersion,           \* which DatabaseTool definition of database-tool.js is loaded
    tools,               \* MultiSourceAgent.tools, as the sequence of tool names
    graph,               \* MultiSourceAgent.graph is set (not null)
    databases,           \* DatabaseTool.databases, the keys in insertion order
    vectorStore,         \* FileTool.vectorStore is set (not null)
    boot,                \* main: how agent.initialize ended and the tool failures it logged
    handles,             \* the names of the databases whose sqlite3 connection is open
    conversationHistory, \* MultiSourceAgent.conversationHistory
    pm,                  \* the activation of processMessage
    calls,               \* the invocations ToolNode is running for the last model turn
    turns,               \* number of processMessage calls so far
    approvalsGranted,    \* number of askUserApproval that resolved true (TerminalTool)
    executions,          \* number of execAsync calls (TerminalTool)
    bash,                \* BashDataSource and the activation of its execute
    bashCalls,           \* number of BashDataSource.execute calls so far
    probe,               \* last application of a pure function to an input
    session              \* ConversationInterface and the activations of its line handler

vars ==
    << design, requireDefined, platform, dbVersion, tools, graph, databases,
       vectorStore, boot, handles, conversationHistory, pm, calls, turns,
       approvalsGranted, executions, bash, bashCalls, probe, session >>

envVars == << design, requireDefined, platform, dbVersion >>

agentVars ==
    << tools, graph, databases, vectorStore, boot, handles,
       conversationHistory, pm, calls, turns, approvalsGranted, executions >>

bashVars == << bash, bashCalls >>

idleActivation ==
    [pc |-> "idle", userInput |-> "", messages |-> << >>, rounds |-> 0,
     outcome |-> "none", ret |-> "", fault |-> "none", cancelled |-> FALSE]

idleBash ==
    [rl |-> FALSE, pc |-> "idle", question |-> "", command |-> << >>,
     shown |-> << >>, answer |-> << >>, spawned |-> << >>,
     outcome |-> "none", ret |-> ""]

\* ConversationInterface after its constructor; handlers holds one entry
\* per activation of the 'line' listener that reached processMessage
newSession ==
    [rl |-> FALSE, isRunning |-> FALSE, exited |-> FALSE, lines |-> 0,
     prompts |-> 0, handlers |-> << >>]

\* the application made last: the function, the object it was applied to,
\* its text argument, and what it returned (a truth value, strings, the
\* documents searched, the rows formatted, the response of a search, the
\* reply of the model)
noProbe ==
    [fn |-> "none", self |-> << >>, input |-> "", output |-> FALSE, text |-> << >>,
     documents |-> << >>, rows |-> << >>, response |-> << >>, reply |-> << >>]

\* The repository holds two architectures.  The tool-calling agent
\* (agent.js with the tools of src/src/tools) reads neither
\* process.platform nor BashDataSource; the router's command provider
\* (datasources/bash.js) uses neither `require` nor DatabaseTool.
Designs == { "toolCalling", "router" }

Init ==
    /\ design \in Designs
    /\ requireDefined \in (IF design = "toolCalling" THEN BOOLEAN ELSE { FALSE })
    /\ platform \in (IF design = "router" THEN Platforms ELSE { "linux" })
    /\ dbVersion \in (IF design = "toolCalling" THEN {1, 2} ELSE { 1 })
    /\ tools = << >>
    /\ graph = FALSE
    /\ databases = << >>
    /\ vectorStore = FALSE
    /\ boot = [outcome |-> "none", warnings |-> << >>]
    /\ handles = { }
    /\ conversationHistory = << >>
    /\ pm = idleActivation
    /\ calls = << >>
    /\ turns = 0
    /\ approvalsGranted = 0
    /\ executions = 0
    /\ bash = idleBash
    /\ bashCalls = 0
    /\ probe = noProbe
    /\ session = newSession

(***************************************************************************)
(* One tool invocation run by ToolNode: the call of tool.func and the      *)
(* position it has reached.  shown, answer, spawned and statement hold at  *)
(* most one string: the command line printed by the approval prompt, the   *)
(* line read as its answer, the command line handed to execAsync, and the  *)
(* statement handed to db.allAsync; dbFault tells that db.allAsync         *)
(* rejected.                                                               *)
(***************************************************************************)
newCall(toolCall) ==
    [name |-> toolCall.name, arg |-> toolCall.arg, pc |-> "pending",
     shown |-> << >>, answer |-> << >>, spawned |-> << >>,
     statement |-> << >>, db |-> "", dbFault |-> FALSE, result |-> "",
     threw |-> FALSE]

\* the call returns result
returns(c, result) == [c EXCEPT !.pc = "done", !.result = result]

\* the call throws an Error with this message
throws(c, message) == [c EXCEPT !.pc = "done", !.result = message, !.threw = TRUE]

\* TerminalTool.askUserApproval up to rl.question: the executor of the
\* promise needs `require`; without it the promise is rejected
askUserApproval(c, req) ==
    IF ~req THEN throws(c, "require is not defined")
    ELSE [c EXCEPT !.pc = "prompt", !.shown = << c.arg >>]

\* variant: the prompt is put before the classification is consulted
executeCommandPromptFirst(c, req) ==
    IF req THEN askUserApproval(c, req)
    ELSE IF ~isCommandSafe(c.arg) THEN returns(c, RejectedMessage)
    ELSE askUserApproval(c, req)

\* variant: an approval granted earlier is taken to cover later calls
executeCommandReusingApproval(c, req) ==
    IF ~isCommandSafe(c.arg) THEN returns(c, RejectedMessage)
    ELSE IF approvalsGranted > 0
    THEN [c EXCEPT !.pc = "exec", !.spawned = << c.arg >>]
    ELSE askUserApproval(c, req)

\* TerminalTool.executeCommand up to its first await
executeCommand(c, req) ==
    IF ~isCommandSafe(c.arg) THEN returns(c, RejectedMessage)
    ELSE askUserApproval(c, req)

\* variant: the command is run whatever the answer
approvalResolvedUnchecked(c, line) ==
    [c EXCEPT !.answer = << line >>, !.pc = "exec", !.spawned = << c.arg >>]

\* variant: a denial is raised as an Error
approvalResolvedThrowing(c, line) ==
    LET answered == [c EXCEPT !.answer = << line >>]
    IN  IF ~approvedAnswer(line) THEN throws(answered, CancelledMessage)
        ELSE [answered EXCEPT !.pc = "exec", !.spawned = << c.arg >>]

\* the rl.question callback and executeCommand from `if (!approved)` to
\* the call of execAsync
approvalResolved(c, line) ==
    LET answered == [c EXCEPT !.answer = << line >>]
    IN  IF ~approvedAnswer(line) THEN returns(answered, CancelledMessage)
        ELSE [answered EXCEPT !.pc = "exec", !.spawned = << c.arg >>]

\* executeCommand after execAsync settles
commandSettled(c, outcome) ==
    IF outcome.kind = "ok"
    THEN returns(c, formatCommandOutput(outcome.stdout, c.arg))
    ELSE returns(c, terminalFailure(outcome.message))

\* DatabaseTool.executeQuery up to `await db.allAsync(sqlQuery)`
executeQuery(c, version, dbs) ==
    IF version = 1 /\ matchesWritePattern(c.arg)
    THEN returns(c, WriteRejectedMessage)
    ELSE IF dbs = << >> THEN returns(c, NoDatabaseMessage)
    ELSE [c EXCEPT !.pc = "query", !.statement = << c.arg >>, !.db = dbs[1]]

\* variant: the fault of db.allAsync leaves executeQuery
querySettledRethrow(c, version, outcome) ==
    IF outcome.kind = "fault"
    THEN throws([c EXCEPT !.dbFault = TRUE], outcome.message)
    ELSE IF Len(outcome.rows) = 0
    THEN returns(c, noResultsMessage(version, c.arg))
    ELSE returns(c, formatResults(version, c.arg, outcome.rows))

\* DatabaseTool.executeQuery after db.allAsync settles
querySettled(c, version, outcome) ==
    IF outcome.kind = "fault"
    THEN returns([c EXCEPT !.dbFault = TRUE],
                 sqlErrorMessage(version, outcome.message, c.arg))
    ELSE IF Len(outcome.rows) = 0
    THEN returns(c, noResultsMessage(version, c.arg))
    ELSE returns(c, formatResults(version, c.arg, outcome.rows))

\* variant: the search is started whether or not the index exists
fileToolFuncUnguarded(c, store) == [c EXCEPT !.pc = "search"]

\* FileTool's func up to `await this.vectorStore.similaritySearch(query, 4)`
fileToolFunc(c, store) ==
    IF ~store THEN returns(c, NotInitializedMessage)
    ELSE [c EXCEPT !.pc = "search"]

\* FileTool's func after similaritySearch settles; func has no try/catch
searchSettled(c, outcome) ==
    IF outcome.kind = "fault" THEN throws(c, outcome.message)
    ELSE IF Len(outcome.results) = 0 THEN returns(c, NoRelevantMessage)
    ELSE returns(c, fileFormatResults(outcome.results))

\* ToolNode: look the tool up by name and call it
dispatch(c, registered, req, version, dbs, store) ==
    IF \A k \in 1..Len(registered) : registered[k] # c.name
    THEN throws(c, "Tool \"" \o c.name \o "\" not found.")
    ELSE IF c.name = "execute_command" THEN executeCommand(c, req)
    ELSE IF c.name = "database_query" THEN executeQuery(c, version, dbs)
    ELSE IF c.name = "file_content_retriever" THEN fileToolFunc(c, store)
    ELSE c

\* ToolNode: the message appended for a finished invocation; a fault is
\* caught and rendered (handleToolErrors)
toolMessageOf(c) ==
    IF c.threw THEN ToolMessage(c.name, toolErrorContent(c.result), "error")
    ELSE ToolMessage(c.name, c.result, "success")

SearchOutcomes ==
    { [kind |-> "ok", results |-> r, message |-> ""] : r \in SearchResults }
    \cup { [kind |-> "fault", results |-> << >>, message |-> m] : m \in SearchFaults }

ExecOutcomes ==
    { [kind |-> "ok", stdout |-> o, message |-> ""] : o \in Stdouts }
    \cup { [kind |-> "fault", stdout |-> "", message |-> m] : m \in ExecFaults }

DbOutcomes ==
    { [kind |-> "ok", rows |-> r, message |-> ""] : r \in ResultSets }
    \cup { [kind |-> "fault", rows |-> << >>, message |-> m] : m \in DbFaults }

(***************************************************************************)
(* MultiSourceAgent.                                                       *)
(***************************************************************************)
\* variant: the fault is passed on to the caller
catchErrorRethrow(p, kind, message) ==
    [p EXCEPT !.pc = "idle", !.outcome = "threw", !.ret = message, !.fault = kind]

\* the catch block of processMessage
catchError(p, kind, message) ==
    [p EXCEPT !.pc = "idle", !.outcome = "returned",
              !.ret = ApologyPrefix \o message, !.fault = kind]

\* toolsToInit, by the names initialize logs
toolsToInit == << "database", "file", "terminal" >>

\* the tool object behind each entry of toolsToInit, by its tool name
toolOf(name) ==
    CASE name = "database" -> "database_query"
      [] name = "file" -> "file_content_retriever"
      [] name = "terminal" -> "execute_command"

RECURSIVE toolNames(_)
toolNames(names) ==
    IF names = << >> THEN << >>
    ELSE << toolOf(Head(names)) >> \o toolNames(Tail(names))

\* tool.initialize() resolves: DatabaseTool.initialize throws unless it
\* loads a database, FileTool.initialize throws unless it indexes the
\* documents, TerminalTool.initialize only logs
initializeResolves(name, dbFiles, fileOk) ==
    CASE name = "database" -> dbFiles # << >>
      [] name = "file" -> fileOk
      [] name = "terminal" -> TRUE

\* variant: the loop has no try/catch, so the first failure leaves initialize
initializeToolsNoCatch(dbFiles, fileOk) ==
    LET failing == { k \in 1..Len(toolsToInit) :
                        ~initializeResolves(toolsToInit[k], dbFiles, fileOk) }
        stop == IF failing = { } THEN Len(toolsToInit) + 1
                ELSE CHOOSE k \in failing : \A j \in failing : k <= j
    IN  [tools |-> toolNames(SubSeq(toolsToInit, 1, stop - 1)),
         warnings |-> << >>,
         databases |-> dbFiles,
         vectorStore |-> fileOk /\ stop > 2,
         threw |-> failing # { }]

\* the loop over toolsToInit: a tool whose initialize resolves is pushed,
\* the failure of another is logged and the loop goes on; no statement of
\* the loop throws
initializeTools(dbFiles, fileOk) ==
    [tools |-> toolNames(SelectSeq(toolsToInit,
                  LAMBDA name : initializeResolves(name, dbFiles, fileOk))),
     warnings |-> SelectSeq(toolsToInit,
                  LAMBDA name : ~initializeResolves(name, dbFiles, fileOk)),
     databases |-> dbFiles,
     vectorStore |-> fileOk,
     threw |-> FALSE]

\* main calls agent.initialize: the tools are initialized, bound to the
\* model and given to ToolNode, and the graph is built; a fault that leaves
\* initialize reaches the catch block of main, which ends the process with
\* exit code 1
initialize ==
    /\ design = "toolCalling"
    /\ ~graph
    /\ boot.outcome = "none"
    /\ pm.pc = "idle"
    /\ bash.pc = "idle"
    /\ \E dbFiles \in DbFileSets, fileOk \in BOOLEAN :
          LET loop == initializeTools(dbFiles, fileOk)
          IN  /\ databases' = loop.databases
              /\ vectorStore' = loop.vectorStore
              /\ handles' = { loop.databases[k] : k \in 1..Len(loop.databases) }
              /\ tools' = loop.tools
              /\ graph' = ~loop.threw
              /\ boot' = [outcome |-> IF loop.threw THEN "exit1" ELSE "completed",
                          warnings |-> loop.warnings]
    /\ UNCHANGED << envVars, conversationHistory, pm, calls, turns,
                    approvalsGranted, executions, bashVars, probe, session >>

\* processMessage up to the await of graph.invoke: the activation
processMessageBegun(userInput) ==
    LET p == [idleActivation EXCEPT !.userInput = userInput]
    IN  IF ~graph
        THEN catchError(p, "graph",
                "Cannot read properties of null (reading 'invoke')")
        ELSE [p EXCEPT !.pc = "agent",
                       !.messages = Append(conversationHistory,
                                           systemMessage(userInput))]

processMessage ==
    /\ design = "toolCalling"
    /\ pm.pc = "idle"
    /\ bash.pc = "idle"
    /\ turns < MaxTurns
    /\ turns' = turns + 1
    /\ \E userInput \in UserInputs : pm' = processMessageBegun(userInput)
    /\ UNCHANGED << envVars, tools, graph, databases, vectorStore, boot, handles,
                    conversationHistory,
                    calls, approvalsGranted, executions, bashVars, probe, session >>

\* the agent node: callModel fails inside llm.invoke and the fault reaches
\* the catch block of processMessage
callModelFails ==
    /\ pm.pc = "agent"
    /\ \E message \in ModelFaults : pm' = catchError(pm, "model", message)
    /\ UNCHANGED << envVars, tools, graph, databases, vectorStore, boot, handles,
                    conversationHistory,
                    calls, turns, approvalsGranted, executions, bashVars, probe, session >>

\* the agent node: callModel appends the response; shouldContinue routes to
\* the tools node when the response carries tool calls
callModelTools ==
    /\ pm.pc = "agent"
    /\ pm.rounds < MaxRounds
    /\ \E toolCalls \in SeqsUpTo(ToolCallChoices, MaxToolCalls) \ { << >> } :
          /\ pm' = [pm EXCEPT !.pc = "tools", !.rounds = @ + 1,
                              !.messages = Append(@, AIMessage("", toolCalls))]
          /\ calls' = [k \in 1..Len(toolCalls) |-> newCall(toolCalls[k])]
    /\ UNCHANGED << envVars, tools, graph, databases, vectorStore, boot, handles,
                    conversationHistory,
                    turns, approvalsGranted, executions, bashVars, probe, session >>

\* variant: the history is replaced by the last exchange
\* variant: every message of the final state that follows the instruction
\* is pushed to the history
callModelEndPushingAll ==
    /\ pm.pc = "agent"
    /\ \E content \in FinalAnswers :
          LET lastMessage == AIMessage(content, << >>)
          IN  /\ conversationHistory' =
                    conversationHistory
                    \o << HumanMessage(pm.userInput) >>
                    \o SubSeq(pm.messages, Len(conversationHistory) + 2,
                              Len(pm.messages))
                    \o << lastMessage >>
              /\ pm' = [pm EXCEPT !.pc = "idle", !.outcome = "returned",
                                  !.messages = Append(@, lastMessage),
                                  !.ret = lastMessage.content]
    /\ UNCHANGED << envVars, tools, graph, databases, vectorStore, boot, handles,
                    calls, turns, approvalsGranted, executions, bashVars, probe, session >>

callModelEndReplacing ==
    /\ pm.pc = "agent"
    /\ \E content \in FinalAnswers :
          LET lastMessage == AIMessage(content, << >>)
          IN  /\ conversationHistory' =
                    << HumanMessage(pm.userInput), lastMessage >>
              /\ pm' = [pm EXCEPT !.pc = "idle", !.outcome = "returned",
                                  !.messages = Append(@, lastMessage),
                                  !.ret = lastMessage.content]
    /\ UNCHANGED << envVars, tools, graph, databases, vectorStore, boot, handles,
                    calls, turns, approvalsGranted, executions, bashVars, probe, session >>

\* the agent node: the response carries no tool call; shouldContinue routes
\* to END and processMessage records the turn and returns the content
callModelEnd ==
    /\ pm.pc = "agent"
    /\ \E content \in FinalAnswers :
          LET lastMessage == AIMessage(content, << >>)
          IN  /\ conversationHistory' =
                    conversationHistory
                    \o << HumanMessage(pm.userInput), lastMessage >>
              /\ pm' = [pm EXCEPT !.pc = "idle", !.outcome = "returned",
                                  !.messages = Append(@, lastMessage),
                                  !.ret = lastMessage.content]
    /\ UNCHANGED << envVars, tools, graph, databases, vectorStore, boot, handles,
                    calls, turns, approvalsGranted, executions, bashVars, probe, session >>

\* the tools node: ToolNode starts every requested invocation; each runs
\* to its first await
toolNode ==
    /\ pm.pc = "tools"
    /\ calls' = [k \in 1..Len(calls) |->
                    dispatch(calls[k], tools, requireDefined, dbVersion,
                             databases, vectorStore)]
    /\ pm' = [pm EXCEPT !.pc = "toolsWait"]
    /\ UNCHANGED << envVars, tools, graph, databases, vectorStore, boot, handles,
                    conversationHistory,
                    turns, approvalsGranted, executions, bashVars, probe, session >>

\* the callback of rl.question runs with the line in every invocation whose
\* question is pending
questionAnswered(line) ==
    /\ calls' = [k \in 1..Len(calls) |->
                    IF calls[k].pc = "prompt"
                    THEN approvalResolved(calls[k], line) ELSE calls[k]]
    /\ approvalsGranted' =
          approvalsGranted
          + Cardinality({ k \in 1..Len(calls) :
                            calls[k].pc = "prompt" /\ approvedAnswer(line) })
    /\ executions' =
          executions
          + Cardinality({ k \in 1..Len(calls) :
                            calls[k].spawned = << >> /\ calls'[k].spawned # << >> })
    /\ pm' = [pm EXCEPT !.cancelled =
                 @ \/ \E k \in 1..Len(calls) :
                         /\ calls[k].pc = "prompt"
                         /\ calls'[k].pc = "done"]

\* a line arrives on process.stdin: every readline interface with a
\* pending question reads it
answerLine ==
    /\ pm.pc = "toolsWait"
    /\ \E k \in 1..Len(calls) : calls[k].pc = "prompt"
    /\ \E line \in PromptAnswers : questionAnswered(line)
    /\ UNCHANGED << envVars, tools, graph, databases, vectorStore, boot, handles,
                    conversationHistory,
                    turns, bashVars, probe, session >>

\* the subprocess of one invocation exits, fails or times out
commandSettles ==
    /\ pm.pc = "toolsWait"
    /\ \E k \in 1..Len(calls), outcome \in ExecOutcomes :
          /\ calls[k].pc = "exec"
          /\ calls' = [calls EXCEPT ![k] = commandSettled(calls[k], outcome)]
    /\ UNCHANGED << envVars, tools, graph, databases, vectorStore, boot, handles,
                    conversationHistory,
                    pm, turns, approvalsGranted, executions, bashVars, probe, session >>

\* the database answers one statement
querySettles ==
    /\ pm.pc = "toolsWait"
    /\ \E k \in 1..Len(calls), outcome \in DbOutcomes :
          /\ calls[k].pc = "query"
          /\ calls' = [calls EXCEPT ![k] = querySettled(calls[k], dbVersion, outcome)]
    /\ UNCHANGED << envVars, tools, graph, databases, vectorStore, boot, handles,
                    conversationHistory,
                    pm, turns, approvalsGranted, executions, bashVars, probe, session >>

\* the vector store answers one search
searchSettles ==
    /\ pm.pc = "toolsWait"
    /\ \E k \in 1..Len(calls), outcome \in SearchOutcomes :
          /\ calls[k].pc = "search"
          /\ calls' = [calls EXCEPT ![k] = searchSettled(calls[k], outcome)]
    /\ UNCHANGED << envVars, tools, graph, databases, vectorStore, boot, handles,
                    conversationHistory,
                    pm, turns, approvalsGranted, executions, bashVars, probe, session >>

\* variant: the edge out of the tools node leads back to the tools node
toolNodeEndsAtTools ==
    /\ pm.pc = "toolsWait"
    /\ \A k \in 1..Len(calls) : calls[k].pc = "done"
    /\ pm' = [pm EXCEPT !.pc = "tools"]
    /\ calls' = [k \in 1..Len(calls) |->
                    newCall([name |-> calls[k].name, arg |-> calls[k].arg])]
    /\ UNCHANGED << envVars, tools, graph, databases, vectorStore, boot, handles,
                    conversationHistory,
                    turns, approvalsGranted, executions, bashVars, probe, session >>

\* variant: only the result of the first invocation is appended
toolNodeEndsFirstOnly ==
    /\ pm.pc = "toolsWait"
    /\ \A k \in 1..Len(calls) : calls[k].pc = "done"
    /\ pm' = [pm EXCEPT !.pc = "agent",
                        !.messages = Append(@, toolMessageOf(calls[1]))]
    /\ calls' = << >>
    /\ UNCHANGED << envVars, tools, graph, databases, vectorStore, boot, handles,
                    conversationHistory,
                    turns, approvalsGranted, executions, bashVars, probe, session >>

\* the tools node ends: every invocation has finished, the results are
\* appended in request order and the edge leads back to the agent node
toolNodeEnds ==
    /\ pm.pc = "toolsWait"
    /\ \A k \in 1..Len(calls) : calls[k].pc = "done"
    /\ pm' = [pm EXCEPT !.pc = "agent",
                        !.messages = @ \o [k \in 1..Len(calls) |-> toolMessageOf(calls[k])]]
    /\ calls' = << >>
    /\ UNCHANGED << envVars, tools, graph, databases, vectorStore, boot, handles,
                    conversationHistory,
                    turns, approvalsGranted, executions, bashVars, probe, session >>

(***************************************************************************)
(* The other public methods of MultiSourceAgent.  main and the interface   *)
(* call none of them; the test scripts call cleanup, between messages, and *)
(* so do the callers here.                                                 *)
(***************************************************************************)
\* getConversationHistory returns the array itself
getConversationHistory ==
    /\ design = "toolCalling"
    /\ pm.pc = "idle"
    /\ probe.fn = "none"
    /\ probe' = [noProbe EXCEPT !.fn = "getConversationHistory", !.output = TRUE,
                                !.text = conversationHistory]
    /\ UNCHANGED << envVars, agentVars, bashVars, session >>

\* clearConversationHistory assigns a new empty array
clearConversationHistory ==
    /\ design = "toolCalling"
    /\ pm.pc = "idle"
    /\ conversationHistory' = << >>
    /\ UNCHANGED << envVars, tools, graph, databases, vectorStore, boot, handles,
                    pm, calls, turns, approvalsGranted, executions, bashVars,
                    probe, session >>

\* DatabaseTool.close: every connection is closed and the map is cleared
databaseToolClose ==
    /\ databases' = << >>
    /\ handles' = { }

\* cleanup calls close on each tool of this.tools that has one; of the
\* three tools only DatabaseTool has
cleanup ==
    /\ design = "toolCalling"
    /\ pm.pc = "idle"
    /\ boot.outcome = "completed"
    /\ IF \E k \in 1..Len(tools) : tools[k] = "database_query"
       THEN databaseToolClose
       ELSE UNCHANGED << databases, handles >>
    /\ UNCHANGED << envVars, tools, graph, vectorStore, boot, conversationHistory,
                    pm, calls, turns, approvalsGranted, executions, bashVars,
                    probe, session >>

(***************************************************************************)
(* BashDataSource.                                                         *)
(***************************************************************************)
\* initialize creates the readline interface
bashInitialize ==
    /\ design = "router"
    /\ ~bash.rl
    /\ bash.pc = "idle"
    /\ pm.pc = "idle"
    /\ bash' = [bash EXCEPT !.rl = TRUE]
    /\ UNCHANGED << envVars, agentVars, bashCalls, probe, session >>

\* BashDataSource.askUserApproval up to this.rl.question: the command line
\* is printed, then the question is put to this.rl, which is null before
\* initialize
bashAskUserApproval(b, command) ==
    IF ~b.rl
    THEN [b EXCEPT !.shown = command, !.outcome = "threw",
                   !.ret = "Cannot read properties of null (reading 'question')"]
    ELSE [b EXCEPT !.pc = "prompt", !.shown = command]

\* BashDataSource.execute up to its first await that waits for input
bashExecute(b, question, plat) ==
    LET command == generateCommand(question, plat)
        started == [idleBash EXCEPT !.rl = b.rl, !.question = question,
                                    !.command = command]
    IN  IF command = << >>
        THEN [started EXCEPT !.outcome = "returned", !.ret = NoCommandMessage]
        ELSE bashAskUserApproval(started, command)

\* the rl.question callback and execute from `if (!approved)` to the call
\* of execAsync
bashApprovalResolved(b, line) ==
    LET answered == [b EXCEPT !.answer = << line >>]
    IN  IF ~approvedAnswer(line)
        THEN [answered EXCEPT !.pc = "idle", !.outcome = "returned",
                              !.ret = CancelledMessage]
        ELSE [answered EXCEPT !.pc = "exec", !.spawned = b.command]

\* execute after execAsync settles
bashCommandSettled(b, outcome) ==
    [b EXCEPT !.pc = "idle", !.outcome = "returned",
              !.ret = IF outcome.kind = "ok"
                      THEN bashFormatCommandOutput(outcome.stdout, b.command[1])
                      ELSE bashFailure(outcome.message)]

execute ==
    /\ design = "router"
    /\ bash.pc = "idle"
    /\ pm.pc = "idle"
    /\ bashCalls < MaxBashCalls
    /\ bashCalls' = bashCalls + 1
    /\ \E question \in Questions : bash' = bashExecute(bash, question, platform)
    /\ UNCHANGED << envVars, agentVars, probe, session >>

bashAnswerLine ==
    /\ bash.pc = "prompt"
    /\ \E line \in PromptAnswers : bash' = bashApprovalResolved(bash, line)
    /\ UNCHANGED << envVars, agentVars, bashCalls, probe, session >>

bashCommandSettles ==
    /\ bash.pc = "exec"
    /\ \E outcome \in ExecOutcomes : bash' = bashCommandSettled(bash, outcome)
    /\ UNCHANGED << envVars, agentVars, bashCalls, probe, session >>

(***************************************************************************)
(* ConversationInterface (src/src/interface.js; src/unnamed/part_004 holds *)
(* the same class for the router).  readline emits one 'line' event per    *)
(* input line; the listener is an async function, so each event starts an  *)
(* activation of its own that runs to its await.                           *)
(***************************************************************************)
SessionLines ==
    { "What time is it?", " Hello there ", "", "   ", "help", "EXAMPLES",
      "clear", " Quit", "exit", "bye" }

ProcessMessageOutcomes == { "resolved", "rejected" }

exitCommands == { "quit", "exit", "bye" }

promptCommands == { "help", "examples", "clear" }

\* shutdown: isRunning is cleared, the interface is closed, process.exit(0)
shutdown(s) == [s EXCEPT !.isRunning = FALSE, !.rl = FALSE, !.exited = TRUE]

\* the 'line' listener up to `await this.agent.processMessage(userInput)`,
\* handleSpecialCommands included
lineHandler(s, input) ==
    LET userInput == trim(input)
        command == toLowerCase(userInput)
        counted == [s EXCEPT !.lines = @ + 1]
    IN  IF command \in exitCommands THEN shutdown(counted)
        ELSE IF command \in promptCommands \/ userInput = ""
        THEN [counted EXCEPT !.prompts = @ + 1]
        ELSE [counted EXCEPT !.handlers =
                 Append(@, [userInput |-> userInput, pc |-> "processMessage"])]

\* ConversationInterface.start
start ==
    /\ ~session.rl
    /\ ~session.exited
    /\ session' = [session EXCEPT !.rl = TRUE, !.isRunning = TRUE, !.prompts = 1]
    /\ UNCHANGED << envVars, agentVars, bashVars, probe >>

\* a line arrives on process.stdin
onLine ==
    /\ session.rl
    /\ session.lines < MaxLines
    /\ \E input \in SessionLines : session' = lineHandler(session, input)
    /\ UNCHANGED << envVars, agentVars, bashVars, probe >>

\* the processMessage call awaited by an activation settles: the response
\* or the error is printed, then an empty line, and the prompt is shown
processMessageSettles ==
    /\ ~session.exited
    /\ \E k \in 1..Len(session.handlers), outcome \in ProcessMessageOutcomes :
          /\ session.handlers[k].pc = "processMessage"
          /\ session' = [session EXCEPT !.handlers[k].pc = outcome,
                                        !.prompts = @ + 1]
    /\ UNCHANGED << envVars, agentVars, bashVars, probe >>

\* the input ends: the 'close' listener calls shutdown
close ==
    /\ session.rl
    /\ session' = shutdown(session)
    /\ UNCHANGED << envVars, agentVars, bashVars, probe >>

(***************************************************************************)
(* main (src/src/index.js): the agent is initialized, then the session is  *)
(* started on it.  The person at the terminal types a line when a prompt   *)
(* is shown: the prompt of the session, or the question of an approval     *)
(* step.  Both read process.stdin, each through a readline interface of    *)
(* its own, and a line that arrives is emitted by every interface open at  *)
(* that moment.  Of a processMessage call that starts while another is in  *)
(* flight only the start and the settling are followed.                    *)
(***************************************************************************)
MainLines == { "What time is it?", "help", " Quit" }

\* index.js:15-19
mainStart ==
    /\ boot.outcome = "completed"
    /\ start

\* a line typed at the prompt of the session: the 'line' listener runs and,
\* unless the line is a command or empty, calls processMessage
mainLine ==
    /\ session.rl
    /\ session.lines < MaxLines
    /\ pm = idleActivation
    /\ \E input \in MainLines :
          LET after == lineHandler(session, input)
          IN  /\ session' = after
              /\ IF Len(after.handlers) > Len(session.handlers)
                 THEN /\ pm' = processMessageBegun(trim(input))
                      /\ turns' = turns + 1
                 ELSE UNCHANGED << pm, turns >>
    /\ UNCHANGED << envVars, tools, graph, databases, vectorStore, boot, handles,
                    conversationHistory, calls, approvalsGranted, executions,
                    bashVars, probe >>

\* a line typed at the question of an approval step: the interface of the
\* step and the interface of the session both emit it
mainAnswerLine ==
    /\ session.rl
    /\ session.lines < MaxLines
    /\ pm.pc = "toolsWait"
    /\ \E k \in 1..Len(calls) : calls[k].pc = "prompt"
    /\ \E line \in PromptAnswers :
          /\ questionAnswered(line)
          /\ session' = lineHandler(session, line)
    /\ UNCHANGED << envVars, tools, graph, databases, vectorStore, boot, handles,
                    conversationHistory, turns, bashVars, probe >>

\* the listener activation that awaits the call described by pm
awaitsActivation(k) ==
    /\ session.handlers[k].pc = "processMessage"
    /\ session.handlers[k].userInput = pm.userInput

\* the processMessage call described by pm has settled: the activation that
\* awaited it prints the response or the error and shows the prompt
mainSettles ==
    /\ ~session.exited
    /\ pm.pc = "idle"
    /\ pm.outcome # "none"
    /\ \E k \in 1..Len(session.handlers) :
          /\ awaitsActivation(k)
          /\ session' = [session EXCEPT
                            !.handlers[k].pc =
                                IF pm.outcome = "returned" THEN "resolved"
                                ELSE "rejected",
                            !.prompts = @ + 1]
    /\ pm' = idleActivation
    /\ UNCHANGED << envVars, tools, graph, databases, vectorStore, boot, handles,
                    conversationHistory, calls, turns, approvalsGranted, executions,
                    bashVars, probe >>

\* a processMessage call that was started by the answer to a question
\* settles: with the final answer of the model, which is pushed to the
\* history with the utterance, or with the apology of the catch block
answerCallSettles ==
    /\ ~session.exited
    /\ \E k \in 1..Len(session.handlers) :
          /\ session.handlers[k].pc = "processMessage"
          /\ ~awaitsActivation(k)
          /\ session' = [session EXCEPT !.handlers[k].pc = "resolved",
                                        !.prompts = @ + 1]
          /\ \/ UNCHANGED conversationHistory
             \/ \E content \in FinalAnswers :
                   conversationHistory' =
                       conversationHistory
                       \o << HumanMessage(session.handlers[k].userInput),
                             AIMessage(content, << >>) >>
    /\ UNCHANGED << envVars, tools, graph, databases, vectorStore, boot, handles,
                    pm, calls, turns, approvalsGranted, executions, bashVars, probe >>

\* a step of the graph while the process runs
mainGraphStep ==
    /\ ~session.exited
    /\ \/ callModelFails
       \/ callModelTools
       \/ callModelEnd
       \/ toolNode
       \/ commandSettles
       \/ querySettles
       \/ searchSettles
       \/ toolNodeEnds

(***************************************************************************)
(* Applications of the pure functions to inputs.                           *)
(***************************************************************************)
applyIsCommandSafe ==
    /\ probe.fn = "none"
    /\ \E command \in Commands :
          probe' = [noProbe EXCEPT !.fn = "isCommandSafe", !.input = command,
                                   !.output = isCommandSafe(command)]
    /\ UNCHANGED << envVars, agentVars, bashVars, session >>

applyApprovedAnswer ==
    /\ probe.fn = "none"
    /\ \E answer \in Answers :
          probe' = [noProbe EXCEPT !.fn = "approvedAnswer", !.input = answer,
                                   !.output = approvedAnswer(answer)]
    /\ UNCHANGED << envVars, agentVars, bashVars, session >>

\* generateSqlQuery on a question and the schema of the first database, in
\* either definition of SqliteDataSource; output tells whether a query was
\* returned and text holds it
applyGenerateSqlQuery ==
    /\ probe.fn = "none"
    /\ \E version \in {1, 2}, question \in SqliteQuestions, schema \in Schemas :
          LET sqlQuery == generateSqlQuery(version, question, schema)
          IN  probe' = [noProbe EXCEPT !.fn = "generateSqlQuery",
                                       !.input = question,
                                       !.output = sqlQuery # << >>,
                                       !.text = sqlQuery]
    /\ UNCHANGED << envVars, agentVars, bashVars, session >>

\* ToolRouter.route on a question and the reply of the model
applyRoute ==
    /\ probe.fn = "none"
    /\ \E question \in RouterQuestions, reply \in RouterReplies :
          probe' = [noProbe EXCEPT !.fn = "route", !.input = question,
                                   !.reply = << reply >>,
                                   !.output = (reply.kind = "ok"),
                                   !.text = << route(question, reply) >>]
    /\ UNCHANGED << envVars, agentVars, bashVars, session >>

\* BashDataSource.generateCommand on a question; output tells whether a
\* command was proposed and text holds it
applyGenerateCommand ==
    /\ probe.fn = "none"
    /\ \E question \in Questions :
          LET command == generateCommand(question, platform)
          IN  probe' = [noProbe EXCEPT !.fn = "generateCommand",
                                       !.input = question,
                                       !.output = (command # << >>),
                                       !.text = command]
    /\ UNCHANGED << envVars, agentVars, bashVars, session >>

\* formatResults on a statement and the rows it delivered, in either
\* definition of DatabaseTool
applyFormatResults ==
    /\ probe.fn = "none"
    /\ \E version \in {1, 2}, in \in FormatInputs :
          probe' = [noProbe EXCEPT
                       !.fn = "formatResults", !.rows = in.results,
                       !.input = in.sqlQuery,
                       !.output = (Len(in.results) = 1 /\ hasCount(in.results[1])),
                       !.text = << formatResults(version, in.sqlQuery, in.results) >>]
    /\ UNCHANGED << envVars, agentVars, bashVars, session >>

\* FileTool's func applied to the tool object as it is, by a caller that
\* holds the object; output tells whether the search was started and text
\* holds what was returned at once
applyFileToolFunc ==
    /\ probe.fn = "none"
    /\ \E query \in ModelSearches :
          LET c == fileToolFunc(newCall([name |-> "file_content_retriever",
                                         arg |-> query]), vectorStore)
          IN  probe' = [noProbe EXCEPT
                           !.fn = "func", !.self = << vectorStore >>, !.input = query,
                           !.output = (c.pc = "search"),
                           !.text = IF c.pc = "done" THEN << c.result >> ELSE << >>]
    /\ UNCHANGED << envVars, agentVars, bashVars, session >>

\* DocumentDataSource.search on a question and the documents loaded
applySearch ==
    /\ probe.fn = "none"
    /\ \E documents \in DocumentSets, userQuestion \in DocumentQuestions :
          LET response == search(documents, userQuestion)
          IN  probe' = [noProbe EXCEPT
                           !.fn = "search", !.documents = documents,
                           !.input = userQuestion,
                           !.output = (response.message = << >>),
                           !.response = << response >>]
    /\ UNCHANGED << envVars, agentVars, bashVars, session >>

(***************************************************************************)
(* Specifications.                                                         *)
(***************************************************************************)
Next ==
    \/ initialize
    \/ processMessage
    \/ callModelFails
    \/ callModelTools
    \/ callModelEnd
    \/ toolNode
    \/ answerLine
    \/ commandSettles
    \/ querySettles
    \/ searchSettles
    \/ toolNodeEnds
    \/ bashInitialize
    \/ execute
    \/ bashAnswerLine
    \/ bashCommandSettles

Spec == Init /\ [][Next]_vars

\* the agent node: the model call returns or fails
callModel == callModelFails \/ callModelTools \/ callModelEnd

\* Each model call and each tool call returns: the model answers or fails,
\* ToolNode's synchronous steps run, the person at the terminal answers a
\* pending prompt, a subprocess exits or is killed by its 30-second
\* timeout, and the database and the vector store answer.
Fairness ==
    /\ WF_vars(callModel)
    /\ WF_vars(toolNode)
    /\ WF_vars(answerLine)
    /\ WF_vars(commandSettles)
    /\ WF_vars(querySettles)
    /\ WF_vars(searchSettles)
    /\ WF_vars(toolNodeEnds)

SpecLive == Spec /\ Fairness

NextApi ==
    \/ Next
    \/ getConversationHistory
    \/ clearConversationHistory
    \/ cleanup

SpecApi == Init /\ [][NextApi]_vars

NextProviders == Next \/ applyFileToolFunc

SpecProviders == Init /\ [][NextProviders]_vars

NextSession ==
    \/ start
    \/ onLine
    \/ processMessageSettles
    \/ close

SpecSession == Init /\ [][NextSession]_vars

NextMain ==
    \/ initialize
    \/ mainStart
    \/ mainLine
    \/ mainAnswerLine
    \/ mainGraphStep
    \/ mainSettles
    \/ answerCallSettles
    \/ close

SpecMain == Init /\ [][NextMain]_vars

NextPure ==
    \/ applyIsCommandSafe
    \/ applyApprovedAnswer
    \/ applyGenerateSqlQuery
    \/ applySearch
    \/ applyFormatResults
    \/ applyRoute
    \/ applyGenerateCommand

SpecPure == Init /\ [][NextPure]_vars

(***************************************************************************)
(* Properties.                                                             *)
(***************************************************************************)
Calls == 1..Len(calls)

\* the classification of the command lines the model and the templates
\* propose, computed once
classified ==
    [c \in ModelCommands \cup TemplateCommands \cup
            { generateCommand(q, pl)[1] :
                q \in { x \in Questions : generateCommand(x, "linux") # << >> },
                pl \in Platforms }
        |-> isCommandSafe(c)]

\* the first character of the line is the letter y
beginsWithY(line) == Len(line) > 0 /\ charAt(line, 1) \in { "y", "Y" }

\* C1: a subprocess is spawned for a command line only if, earlier in the
\* same call, exactly that line was shown by the approval prompt and the
\* answer read for it was an approval; with no answer yet, or after a
\* denial, the call has spawned nothing.  This holds of
\* TerminalTool.executeCommand and of BashDataSource.execute.
SpawnOnlyAfterApproval ==
    /\ \A k \in Calls :
          calls[k].spawned # << >> =>
             /\ calls[k].spawned = << calls[k].arg >>
             /\ calls[k].shown = calls[k].spawned
             /\ calls[k].answer # << >>
             /\ beginsWithY(calls[k].answer[1])
    /\ bash.spawned # << >> =>
          /\ bash.spawned = bash.command
          /\ bash.shown = bash.spawned
          /\ bash.answer # << >>
          /\ beginsWithY(bash.answer[1])

SpawnAfterApprovalReached ==
    \E k \in Calls :
       /\ calls[k].name = "execute_command"
       /\ calls[k].pc = "exec"
       /\ calls[k].spawned = << "date" >>

\* C2: a command the classification rejects gets the rejection message
\* from executeCommand, its approval prompt is never shown and no
\* subprocess is spawned for it; a subprocess is spawned only after a
\* prompt, and a prompt is shown only after the classification accepted.
RejectedBeforePrompt ==
    \A k \in Calls :
       calls[k].name = "execute_command" =>
          /\ (calls[k].pc # "pending" /\ ~classified[calls[k].arg]) =>
                /\ calls[k].pc = "done"
                /\ calls[k].result = RejectedMessage
                /\ ~calls[k].threw
                /\ calls[k].shown = << >>
                /\ calls[k].spawned = << >>
          /\ calls[k].shown # << >> => classified[calls[k].arg]
          /\ calls[k].spawned # << >> => calls[k].shown # << >>

RejectedBeforePromptReached ==
    \E k \in Calls :
       /\ calls[k].arg = "rm -rf /"
       /\ calls[k].result = RejectedMessage
       /\ requireDefined

\* C3: isCommandSafe is false for every command in which an entry of the
\* dangerous list occurs, letter case ignored, whatever the allowlists say.
BlocklistTakesPrecedence ==
    ( /\ probe.fn = "isCommandSafe"
      /\ \E d \in dangerousCommands :
            includes(toLowerCase(probe.input), toLowerCase(d)) )
    => probe.output = FALSE

BlocklistTakesPrecedenceReached ==
    /\ probe.fn = "isCommandSafe"
    /\ probe.input = "curl -s \"https://wttr.in/?format=3\""
    /\ startsWithSafe(probe.input)
    /\ containsSafeUrl(probe.input)
    /\ probe.output = FALSE

\* C4: every command isCommandSafe accepts has a first whitespace-delimited
\* word that is a member of the safe-command allowlist, or names a host of
\* the safe-domain allowlist.
DefaultDeny ==
    ( probe.fn = "isCommandSafe" /\ probe.output = TRUE )
    => LET cmd == trim(toLowerCase(probe.input))
       IN  firstToken(cmd) \in safeCommands \/ containsSafeUrl(cmd)

\* C5: every command line an approval prompt is waiting on or that was
\* handed to a subprocess, by TerminalTool or by BashDataSource, passes
\* isCommandSafe.
EveryProposerClassified ==
    /\ \A k \in Calls :
          /\ calls[k].shown # << >> => classified[calls[k].shown[1]]
          /\ calls[k].spawned # << >> => classified[calls[k].spawned[1]]
    /\ bash.pc = "prompt" => classified[bash.shown[1]]
    /\ bash.spawned # << >> => classified[bash.spawned[1]]

\* the invocation k spawns its subprocess in this step
spawnsNow(k) ==
    /\ k \in 1..Len(calls')
    /\ calls'[k].spawned # << >>
    /\ (k > Len(calls) \/ calls[k].spawned = << >>)

\* C6: every step spawns at most as many subprocesses as approvals are
\* granted in that same step, each for the line its own prompt showed and
\* had approved in that step, so the executions never outnumber the
\* approvals and no earlier approval is used again, neither for the same
\* nor for another command line.
ApprovalConsumedOnce ==
    [][ /\ executions' - executions <= approvalsGranted' - approvalsGranted
        /\ executions' <= approvalsGranted'
        /\ executions' - executions
              = Cardinality({ k \in 1..Len(calls') : spawnsNow(k) })
        /\ \A k \in 1..Len(calls') :
              spawnsNow(k) =>
                 /\ k <= Len(calls)
                 /\ calls[k].pc = "prompt"
                 /\ calls[k].answer = << >>
                 /\ calls'[k].answer # << >>
                 /\ beginsWithY(calls'[k].answer[1])
                 /\ calls'[k].spawned = calls[k].shown
                 /\ calls'[k].spawned = << calls[k].arg >> ]_vars

ApprovalConsumedOnceReached ==
    /\ executions = 1
    /\ approvalsGranted = 1
    /\ turns = 2
    /\ \E k \in Calls :
          /\ calls[k].arg = "date"
          /\ calls[k].answer # << >>
          /\ calls[k].result = CancelledMessage
          /\ calls[k].spawned = << >>

\* C7: a declined approval aborts only that invocation: it returns the
\* cancellation message without throwing and without a subprocess while
\* the turn goes on; the message reaches the model as an ordinary tool
\* result, and the turn ends in the catch block only if the model fails.
DeclineAbortsOnlyTheCall ==
    /\ \A k \in Calls :
          (calls[k].answer # << >> /\ ~beginsWithY(calls[k].answer[1])) =>
             /\ calls[k].pc = "done"
             /\ calls[k].result = CancelledMessage
             /\ ~calls[k].threw
             /\ calls[k].spawned = << >>
             /\ pm.pc = "toolsWait"
    /\ (pm.cancelled /\ pm.pc \in { "agent", "idle" }) =>
          \E j \in 1..Len(pm.messages) :
             pm.messages[j] = ToolMessage("execute_command", CancelledMessage, "success")
    /\ (pm.cancelled /\ pm.outcome = "returned") =>
          /\ pm.fault \in { "none", "model" }
          /\ pm.fault = "none" =>
                /\ pm.ret \in FinalAnswers
                /\ pm.messages[Len(pm.messages)] = AIMessage(pm.ret, << >>)

DeclineAbortsOnlyTheCallReached ==
    /\ pm.cancelled
    /\ pm.outcome = "returned"
    /\ pm.fault = "none"
    /\ executions = 0

\* C8 as stated: every answer line that does not begin with "yes", letter
\* case ignored, is read as a denial.
OnlyYesApproves ==
    ( probe.fn = "approvedAnswer" /\ ~startsWith(toLowerCase(probe.input), "yes") )
    => probe.output = FALSE

\* C8 amended: every answer line whose first character is not the letter
\* y, in either case, is read as a denial (the empty line and lines with
\* leading whitespace included).
OnlyYPrefixApproves ==
    ( probe.fn = "approvedAnswer" /\ ~beginsWithY(probe.input) )
    => probe.output = FALSE

OnlyYPrefixApprovesReached ==
    /\ probe.fn = "approvedAnswer"
    /\ probe.input = " yes"
    /\ probe.output = FALSE

\* C9: processMessage never throws: a call made before initialize, a
\* failing model call and a failing tool all end in a returned string,
\* the apology followed by the error message when the turn failed; a
\* failing tool does not even end the turn.
ProcessMessageNeverThrows ==
    /\ pm.outcome # "threw"
    /\ pm.fault # "none" =>
          /\ pm.outcome = "returned"
          /\ pm.pc = "idle"
          /\ startsWith(pm.ret, ApologyPrefix)
          /\ Len(pm.ret) > Len(ApologyPrefix)
    /\ (pm.outcome = "returned" /\ pm.fault = "none") => pm.ret \in FinalAnswers
    /\ \A k \in Calls : calls[k].threw => pm.pc = "toolsWait" /\ pm.fault = "none"

ProcessMessageNeverThrowsReached ==
    /\ pm.outcome = "returned"
    /\ pm.fault = "model"
    /\ \E j \in 1..Len(pm.messages) : pm.messages[j].status = "error"

\* C10: no statement handed to db.allAsync contains one of the write
\* keywords INSERT, UPDATE, DELETE, DROP, ALTER, in any letter case.
writeKeywords == { "insert", "update", "delete", "drop", "alter" }

NoWriteStatementReachesDb ==
    \A k \in Calls :
       calls[k].statement # << >> =>
          \A w \in writeKeywords : ~includes(toLowerCase(calls[k].statement[1]), w)


\* does the text match /INSERT|UPDATE|DELETE|DROP|ALTER/i
matchesWriteVerb(text) ==
    \E w \in writeKeywords : includes(toLowerCase(text), w)

\* C11: for every question, the query text generateSqlQuery returns does
\* not match INSERT|UPDATE|DELETE|DROP|ALTER, case-insensitively.
GeneratedQueryIsReadOnly ==
    (probe.fn = "generateSqlQuery" /\ probe.output)
        => ~matchesWriteVerb(probe.text[1])


\* the invocations of database_query that have run executeQuery to its end
queriesDone ==
    { k \in Calls : /\ calls[k].name = "database_query"
                    /\ calls[k].pc = "done"
                    /\ \E i \in 1..Len(tools) : tools[i] = "database_query" }

\* executeQuery turned the query away in its write-operation check
rejectedAsWrite(c) == dbVersion = 1 /\ matchesWritePattern(c.arg)

SchemaTip == "Check table/column names against the schema"

echoesQueryAndTip(c) == includes(c.result, c.arg) /\ includes(c.result, SchemaTip)

\* C12 as stated: executeQuery never throws, and for every malformed or
\* rejected query the string it returns embeds the query text together
\* with a hint to re-check the schema.
ExecuteQueryErrorsEchoQuery ==
    \A k \in queriesDone :
        /\ ~calls[k].threw
        /\ (calls[k].dbFault \/ rejectedAsWrite(calls[k]))
              => echoesQueryAndTip(calls[k])

\* C12 amended: executeQuery never throws and returns a string on every
\* outcome; the string for a statement on which the database faults
\* embeds the statement and the schema tip in the first definition and only
\* the database's message in the second, and a query turned away by the
\* write-operation check gets the fixed message, which embeds neither.
ExecuteQueryNeverThrows ==
    \A k \in queriesDone :
        /\ ~calls[k].threw
        /\ calls[k].result # ""
        /\ (calls[k].dbFault /\ dbVersion = 1) => echoesQueryAndTip(calls[k])
        /\ (calls[k].dbFault /\ dbVersion = 2)
              => /\ startsWith(calls[k].result, "Database query error: ")
                 /\ ~echoesQueryAndTip(calls[k])
        /\ rejectedAsWrite(calls[k])
              => /\ calls[k].result = WriteRejectedMessage
                 /\ ~echoesQueryAndTip(calls[k])

ExecuteQueryNeverThrowsReached ==
    \E k \in queriesDone :
        /\ calls[k].dbFault
        /\ dbVersion = 1
        /\ calls[k].statement = << calls[k].arg >>
        /\ ~calls[k].threw
        /\ echoesQueryAndTip(calls[k])


\* C13: executeCommand returns a string on every path and no fault leaves
\* it: after a safety rejection, a denial, a subprocess fault or timeout,
\* and a fault raised while the approval prompt is created or read.
ExecuteCommandNeverThrows ==
    \A k \in Calls :
        (calls[k].name = "execute_command" /\ calls[k].pc = "done")
            => ~calls[k].threw


requestsTools(message) == message.type = "ai" /\ message.tool_calls # << >>

plainTurn(message) == message.type = "ai" /\ message.tool_calls = << >>

\* the request at position i of the messages is followed by one result
\* for each of its invocations, in the order of the request
answered(messages, i) ==
    LET requested == messages[i].tool_calls
    IN  /\ i + Len(requested) <= Len(messages)
        /\ \A j \in 1..Len(requested) :
              /\ messages[i + j].type = "tool"
              /\ messages[i + j].name = requested[j].name

\* the model is about to be invoked: every request made so far has its
\* results in the messages, and the messages end with the prompt or a result
readyForModel ==
    pm.pc = "agent"
        => /\ \A i \in 1..Len(pm.messages) :
                 requestsTools(pm.messages[i]) => answered(pm.messages, i)
           /\ pm.messages[Len(pm.messages)].type \in { "human", "tool" }

\* the tools node is running: the last message is the request and one
\* invocation runs for each of its tool calls
runningRequest ==
    pm.pc \in { "tools", "toolsWait" }
        => LET request == pm.messages[Len(pm.messages)]
           IN  /\ requestsTools(request)
               /\ Len(calls) = Len(request.tool_calls)
               /\ \A k \in Calls :
                     /\ calls[k].name = request.tool_calls[k].name
                     /\ calls[k].arg = request.tool_calls[k].arg

\* a step in which the graph run ends and processMessage returns its
\* content: the model's turn carries no tool call, no earlier turn of the
\* run was such a turn, and the content of the turn is what is returned
runEnds ==
    (pm.pc = "agent" /\ pm'.pc = "idle" /\ pm'.fault = "none")
        => /\ Len(pm'.messages) = Len(pm.messages) + 1
           /\ SubSeq(pm'.messages, 1, Len(pm.messages)) = pm.messages
           /\ plainTurn(pm'.messages[Len(pm'.messages)])
           /\ pm'.outcome = "returned"
           /\ pm'.ret = pm'.messages[Len(pm'.messages)].content
           /\ \A i \in (Len(conversationHistory) + 1)..Len(pm.messages) :
                 ~plainTurn(pm.messages[i])

\* a step of the run that leaves the agent node for the tools node does so
\* with a turn that requests invocations
runContinues ==
    (pm.pc = "agent" /\ pm'.pc = "tools")
        => requestsTools(pm'.messages[Len(pm'.messages)])

\* C14: in the loop built by buildGraph every requested invocation is
\* executed and its result appended before the model is invoked again,
\* and the run ends exactly at the first model turn without tool
\* invocations, whose content processMessage returns.
ToolLoopFeedsEveryResultBack ==
    /\ [](readyForModel /\ runningRequest)
    /\ [][runEnds /\ runContinues]_vars

ToolLoopFeedsEveryResultBackReached ==
    /\ pm.pc = "idle"
    /\ pm.outcome = "returned"
    /\ pm.fault = "none"
    /\ \E i \in 1..Len(pm.messages) :
          /\ requestsTools(pm.messages[i])
          /\ Len(pm.messages[i].tool_calls) = 2
          /\ Len(pm.messages) = i + 3
          /\ pm.messages[i + 1].type = "tool"
          /\ pm.messages[i + 2].type = "tool"
    /\ pm.ret = pm.messages[Len(pm.messages)].content


\* C15: every call of processMessage eventually returns, provided each
\* model call and each tool call returns; the loop itself goes round as
\* often as the model asks for invocations.
ProcessMessageEventuallyReturns == (pm.pc # "idle") ~> (pm.pc = "idle")

ProcessMessageEventuallyReturnsReached ==
    /\ pm.pc = "toolsWait"
    /\ pm.rounds = MaxRounds
    /\ \E k \in Calls : calls[k].pc \in { "prompt", "exec", "query" }


\* the activations of the line handler whose processMessage call has not
\* settled
inFlight ==
    { k \in 1..Len(session.handlers) : session.handlers[k].pc = "processMessage" }

\* C16: at any time at most one processMessage call started by the line
\* handler of ConversationInterface is in flight.
AtMostOneProcessMessageInFlight == Cardinality(inFlight) <= 1


\* the execute_command invocations that wait for an answer to their prompt
\* or for their subprocess
pendingApprovals ==
    { k \in Calls : calls[k].name = "execute_command"
                    /\ calls[k].pc \in { "prompt", "exec" } }

statementsInFlight == { k \in Calls : calls[k].pc = "query" }

\* C18: when one model turn requests several database_query invocations,
\* at most one statement is in flight at any time, and every statement
\* runs against the first discovered database.
QueriesSerialized ==
    /\ Cardinality(statementsInFlight) <= 1
    /\ \A k \in statementsInFlight : calls[k].db = databases[1]


Range(seq) == { seq[k] : k \in 1..Len(seq) }

\* C19: once agent.initialize has ended, the tool set holds exactly the
\* tools whose initialize did not fail, each failure has been logged, and
\* initialization has ended in a hard failure (main's exit code 1, no
\* graph) exactly when the tool set is empty, and has completed otherwise.
InitializeSkipsFailedTools ==
    boot.outcome # "none" =>
        /\ \A name \in Range(toolsToInit) :
              toolOf(name) \in Range(tools) <=> name \notin Range(boot.warnings)
        /\ "database" \in Range(boot.warnings) <=> databases = << >>
        /\ "file" \in Range(boot.warnings) <=> ~vectorStore
        /\ boot.outcome = "exit1" <=> tools = << >>
        /\ boot.outcome = "completed" <=> graph

\* the database tool and the file tool have both failed, initialize has
\* completed, and a command of the remaining tool is at its approval prompt
InitializeSkipsFailedToolsReached ==
    /\ boot.outcome = "completed"
    /\ boot.warnings = << "database", "file" >>
    /\ tools = << "execute_command" >>
    /\ \E k \in Calls : calls[k].name = "execute_command" /\ calls[k].pc = "prompt"


\* the invocations that have entered the code of their tool and wait there
insideTool == { k \in Calls : calls[k].pc \in { "prompt", "exec", "query", "search" } }

\* C20: a tool is in the agent's tool set, and reachable through the graph,
\* only after initialize has pushed it, which it does only once the tool's
\* own initialize has resolved (the database tool holds a database, the
\* file tool its index); an invocation enters only the code of a tool of
\* the set; and FileTool's func, applied while the index is absent, returns
\* the not-initialized message and starts no search.
ToolsAcceptCallsOnlyOnceInitialized ==
    /\ tools # << >> => boot.outcome = "completed" /\ graph
    /\ "database_query" \in Range(tools) => databases # << >>
    /\ "file_content_retriever" \in Range(tools) => vectorStore
    /\ \A k \in insideTool : calls[k].name \in Range(tools)
    /\ \A k \in Calls : calls[k].pc = "search" => vectorStore
    /\ (probe.fn = "func" /\ probe.self = << FALSE >>) =>
          ~probe.output /\ probe.text = << NotInitializedMessage >>

\* FileTool's initialize has failed, the tool is not in the set, and its
\* func has been applied with the index absent
ToolsAcceptCallsOnlyOnceInitializedReached ==
    /\ boot.outcome = "completed"
    /\ "file" \in Range(boot.warnings)
    /\ "file_content_retriever" \notin Range(tools)
    /\ probe.fn = "func"
    /\ probe.self = << FALSE >>
    /\ probe.text = << NotInitializedMessage >>


\* s is an initial part of t
IsPrefix(s, t) == Len(s) <= Len(t) /\ SubSeq(t, 1, Len(s)) = s

\* C21 as stated: across every step of every public operation the history
\* before the step is a prefix of the history after it.
HistoryAppendOnly == [][IsPrefix(conversationHistory, conversationHistory')]_vars

\* C21 as amended: clearConversationHistory empties the history; across
\* every other step the history before is a prefix of the history after.
HistoryAppendOnlyUntilCleared ==
    /\ [][clearConversationHistory => conversationHistory' = << >>]_vars
    /\ [][clearConversationHistory
          \/ IsPrefix(conversationHistory, conversationHistory')]_vars

\* two messages have been answered, the history holds both exchanges, and
\* getConversationHistory has returned it
HistoryAppendOnlyUntilClearedReached ==
    /\ turns = 2
    /\ Len(conversationHistory) = 4
    /\ probe.fn = "getConversationHistory"
    /\ probe.text = conversationHistory
    /\ boot.outcome = "completed"
    /\ handles = { }
    /\ "database_query" \in Range(tools)


\* the response of the search applied last
searchResponse == probe.response[1]

\* some extracted term occurs in some section of some loaded document
someTermOccurs ==
    \E d \in 1..Len(probe.documents) :
        \E section \in Range(splitSections(probe.documents[d].content)) :
            \E term \in Range(extractSearchTerms(probe.input)) :
                termCount(toLowerCase(section), term) > 0

\* C22: search returns the no-relevant-information message whenever no
\* extracted term occurs in a loaded document, and formatted results only
\* when some term occurs.
NoMatchGivesNoRelevantInformation ==
    probe.fn = "search" =>
        /\ ~someTermOccurs => searchResponse.message = << NoRelevantInformation >>
        /\ searchResponse.message = << >> => someTermOccurs

\* the sections that the response shows for the document of index d
shownOf(d) ==
    SelectSeq(searchResponse.sections,
              LAMBDA shown : shown.docName = probe.documents[d].docName)

\* the scored sections of the document of index d
scoredOf(d) ==
    scoredSections(probe.documents[d].content, extractSearchTerms(probe.input))

\* section a ranks before section b: a higher score, or the same score and
\* an earlier place in the document
ranksBefore(a, b) ==
    a.score > b.score \/ (a.score = b.score /\ a.position < b.position)

\* the sections shown for document d are its n best, best first
showsBest(d, n) ==
    LET shown == shownOf(d)
        scored == Range(scoredOf(d))
    IN  /\ Len(shown) = (IF Cardinality(scored) < n THEN Cardinality(scored) ELSE n)
        /\ \A k \in 1..Len(shown) : shown[k].match \in scored
        /\ \A k \in 1..(Len(shown) - 1) :
               ranksBefore(shown[k].match, shown[k + 1].match)
        /\ \A k \in 1..Len(shown) :
               \A other \in scored \ { shown[j].match : j \in 1..Len(shown) } :
                   ranksBefore(shown[k].match, other)

isNumeric(value) ==
    /\ Len(value) > 0
    /\ \A i \in 1..Len(value) : \E d \in 0..9 : charAt(value, i) = digitChar(d)

\* the rows are a single row with a single numeric column
isScalar(results) ==
    /\ Len(results) = 1
    /\ Len(results[1]) = 1
    /\ ~results[1][1].isNull
    /\ isNumeric(results[1][1].value)

\* the response is a numbered listing of rows
isListing(response) == includes(response, " result(s):\n\n")

\* C24: a single row with a single numeric column, whatever the column is
\* named, is rendered by formatResults as one sentence that holds the value
\* and not as a numbered listing; rows of any other shape are rendered as a
\* listing.
ScalarResultRenderedAsSentence ==
    probe.fn = "formatResults" =>
        IF isScalar(probe.rows)
        THEN /\ includes(probe.text[1],
                         "The result is " \o probe.rows[1][1].value \o ".")
             /\ ~isListing(probe.text[1])
        ELSE isListing(probe.text[1])

\* the label of the reply, trimmed and lower-cased, is one of the four
\* routes
labelIsRoute ==
    /\ probe.reply[1].kind = "ok"
    /\ toLowerCase(trim(probe.reply[1].content)) \in Range(validRoutes)

\* some keyword of the fallback occurs in the question
someKeywordOccurs ==
    \E keyword \in Range(sqliteKeywords) \cup Range(documentKeywords)
                        \cup Range(bashKeywords) :
        includes(toLowerCase(probe.input), keyword)

\* C25: route always returns one of sqlite, document, bash, direct: the
\* label of the model when that label, trimmed and lower-cased, is one of
\* the four, and otherwise (invalid label or failed call) the result of the
\* keyword fallback, which is direct when no keyword matches.
RouteReturnsOneOfFour ==
    probe.fn = "route" =>
        /\ probe.text[1] \in {"sqlite", "document", "bash", "direct"}
        /\ labelIsRoute => probe.text[1] = toLowerCase(trim(probe.reply[1].content))
        /\ ~labelIsRoute => probe.text[1] = fallbackRoute(probe.input)
        /\ (~labelIsRoute /\ ~someKeywordOccurs) => probe.text[1] = "direct"

\* the model answered with a label that is none of the four, on a question
\* without keyword, and route returned direct
RouteReturnsOneOfFourReached ==
    /\ probe.fn = "route"
    /\ probe.reply[1] = [kind |-> "ok", content |-> "sqlite."]
    /\ ~someKeywordOccurs
    /\ probe.text = << "direct" >>

\* C26: for each external-data example question of the README,
\* generateCommand proposes the fixed command of the question's own
\* category: the weather endpoint, the date command, the exchange-rate
\* endpoint and the IP lookup endpoint.
ReadmeQuestionsGetOwnCommand ==
    probe.fn = "generateCommand" =>
        /\ probe.input = "What's the current weather?"
              => probe.text = << "curl -s \"https://wttr.in/?format=3\"" >>
        /\ probe.input = "What time is it?"
              => probe.text \in { << "date" >>, << "date /t && time /t" >> }
        /\ probe.input = "Get current exchange rates"
              => probe.text
                    = << "curl -s \"https://api.exchangerate-api.com/v4/latest/USD\"" >>
        /\ probe.input = "What's my IP address?"
              => probe.text = << "curl -s \"https://ipinfo.io/json\"" >>

\* the tool names that the instruction of a turn lists
announcedNames ==
    { name \in { choice.name : choice \in ToolCallChoices } :
        includes(systemMessage("").content, ". " \o name \o " - Use for ") }

\* the instruction has been put before the model
promptSent ==
    \E k \in 1..Len(pm.messages) : pm.messages[k] = systemMessage(pm.userInput)

\* C27: every tool name that the agent announces to the model in its
\* per-turn instruction is the name of a tool registered in the tool node,
\* so an invocation that uses an announced name is dispatched to a provider
\* and never answered with the not-found error (stated for the agent whose
\* tools have all been initialized and registered).
AnnouncedNamesAreRegistered ==
    Len(tools) = Len(toolsToInit) =>
        /\ promptSent => announcedNames \subseteq Range(tools)
        /\ \A k \in 1..Len(calls) :
              calls[k].name \in announcedNames
                 => ~(calls[k].threw
                      /\ calls[k].result = "Tool \"" \o calls[k].name \o "\" not found.")

\* C28: whenever the session shuts down through the interface (quit, exit,
\* bye or the end of the input), every database handle opened by the tools
\* of the agent has been closed before the process exits.
HandlesClosedAtExit == session.exited => handles = { }

\* an approval prompt is pending
promptPending == \E k \in 1..Len(calls) : calls[k].pc = "prompt"

callEnds == pm'.pc = "idle" /\ (pm.pc # "idle" \/ turns' # turns)

\* the last message of the final state of the graph
finalMessage(p) == p.messages[Len(p.messages)]

\* C29: a successful processMessage appends exactly two entries to the
\* conversation history, the utterance followed by the final message of the
\* model, and none of the intermediate tool-call or tool-result messages; a
\* processMessage that fails leaves the history unchanged, as does every
\* step before the end of the call.
ProcessMessageAppendsUtteranceAndAnswer ==
    [][IF callEnds /\ pm'.fault = "none"
       THEN /\ conversationHistory' =
                  conversationHistory
                  \o << HumanMessage(pm'.userInput), finalMessage(pm') >>
            /\ finalMessage(pm').type = "ai"
            /\ finalMessage(pm').tool_calls = << >>
            /\ finalMessage(pm').content = pm'.ret
       ELSE conversationHistory' = conversationHistory]_vars

\* a first call has succeeded and a second one, in which tools ran, has
\* failed in the model call that followed
ProcessMessageAppendsUtteranceAndAnswerReached ==
    /\ turns = 2
    /\ pm.pc = "idle"
    /\ pm.fault = "model"
    /\ Len(conversationHistory) = 2
    /\ conversationHistory[1].type = "human"
    /\ conversationHistory[2].type = "ai"
    /\ \E k \in 1..Len(pm.messages) : pm.messages[k].type = "tool"

====
